---- MODULE Spec2Model ----
(***************************************************************************)
(* The job submission / poll / retry engine of the TypeScript client:       *)
(* uploadFile (fileUpload.ts), the extraction chain and the agent           *)
(* operations (extract.ts), the classification chain (classify.ts) and     *)
(* the LlamaExtract facade.  Every remote call is one step; the response    *)
(* it gets is chosen by the environment.                                    *)
(***************************************************************************)
EXTENDS Integers, Sequences, FiniteSets, TLC

\* ---------------------------------------------------------------- bounds
MaxRetries == 2      \* maxRetriesOnError ranges over 0..MaxRetries
MaxIter == 2         \* maxIterations ranges over 0..MaxIter
MaxFiles == 2        \* files of one classify call
MaxEmpty == 1        \* 2xx responses without data in one run
MaxInterval == 3     \* checkInterval, maxCheckInterval range over 1..MaxInterval
MaxPolls == 3        \* poll iterations of one loadData call

\* ------------------------------------------------------------ value sets
\* The data schemas a caller may pass or assign; the service holds
\* SavedSchema for the agent.
Schemas == {"s1", "s2"}
SavedSchema == "s1"
Configs == {"c1"}

FileIds == {"f1", "f2"}
JobIds == {"j1", "j2"}
AgentIds == {"a1"}
ResultData == {"d1"}

\* The status enumeration of the hosted API (GET .../jobs/{id} -> {status}).
StatusEnum ==
  {"PENDING", "RUNNING", "SUCCESS", "PARTIAL_SUCCESS", "ERROR", "CANCELLED"}

\* What the caller may pass as filePath / fileContent.  "unreadable" is a
\* path fs.readFile rejects; "other" is a value of none of the four accepted
\* content types.
FilePaths == {"undefined", "readable", "unreadable"}
FileContents == {"undefined", "File", "Buffer", "Uint8Array", "string", "other"}
ClassifyPaths == {"readable", "unreadable"}
ClassifyContents == {"Buffer"}

Endpoints ==
  {"upload", "create", "status", "result",
   "createAgent", "getAgentById", "getAgentByName", "deleteAgent"}

\* ------------------------------------------------------------- responses
\* A remote call either throws (the fetch itself failed: "neterr") or
\* returns {data, response}: "fail" is a non-2xx response (data undefined),
\* "empty" a 2xx response whose data is undefined, "ok" a 2xx response
\* carrying data (the id and, for jobs, the status).
Resp(shape, status, id) == [shape |-> shape, status |-> status, id |-> id]

Ok(r) == r.shape \in {"empty", "ok"}
HasData(r) == r.shape = "ok"

NoData == {Resp("neterr", "NA", "none"), Resp("fail", "NA", "none"),
           Resp("empty", "NA", "none")}
UploadResponses == NoData \cup {Resp("ok", "NA", f) : f \in FileIds}
CreateResponses == NoData \cup {Resp("ok", s, j) : s \in StatusEnum, j \in JobIds}
StatusResponses == NoData \cup {Resp("ok", s, "none") : s \in StatusEnum}
ResultResponses == NoData \cup {Resp("ok", "NA", d) : d \in ResultData}
AgentResponses == NoData \cup {Resp("ok", "NA", a) : a \in AgentIds}

VARIABLES
  op,             \* the facade operation in progress
  args,           \* its arguments
  pc,             \* where the operation stands
  outcome,        \* how it ended: [kind, at]
  uploads,        \* the uploadFile calls in progress, in input order
  fileIds,        \* the file ids the facade holds
  jobId,          \* the job id createExtractJob / createClassifyJob returned
  retries,        \* the retry counter of the running retry loop
  numIterations,  \* the counter of pollForJobCompletion
  result,         \* the value returned to the caller
  createReq,      \* file ids in the body of the last create-job request
  calls,          \* remote calls the running loop has issued
  fails,          \* non-2xx responses the running loop has received
  slept,          \* sleeps taken in the last step
  empties,        \* 2xx responses without data received
  allPending,     \* every status response so far was 2xx with PENDING or RUNNING
  body,           \* the body of the last create-job request, file ids apart
  warned,         \* the running call has emitted a warning
  agentObj,       \* the LlamaExtractAgent object the caller holds
  reader,         \* the LlamaParseReader instance and its running loadData call
  http,           \* the HTTP clients' headers and the last request sent
  fileObj,        \* the arguments of an uploadFile call and the File it builds
  chains,         \* extract calls running concurrently on one client
  retriever,      \* the LlamaCloudRetriever instance and its _retrieve call
  lastResp        \* the last response received: [endpoint, shape, status, id]

vars == <<op, args, pc, outcome, uploads, fileIds, jobId, retries,
          numIterations, result, createReq, calls, fails, slept, empties,
          allPending, body, warned, agentObj, reader, http, fileObj,
          chains, retriever, lastResp>>

\* The state of the extraction, classification and agent operations.
ChainVars == <<op, args, pc, outcome, uploads, fileIds, jobId, retries,
               numIterations, result, createReq, calls, fails, slept, empties,
               allPending, body, warned, agentObj, lastResp>>

\* The state those operations never touch.
Aux == <<reader, http, fileObj, chains, retriever>>

NoArgs ==
  [maxRetriesOnError |-> 0, maxIterations |-> 0, id |-> FALSE, name |-> FALSE,
   agentId |-> "undefined", dataSchema |-> "undefined", config |-> "undefined"]

\* A request body without agent id, schema or config.
NoBody ==
  [extraction_agent_id |-> "absent", data_schema |-> "absent", config |-> "absent"]

NoAgent == [id |-> "none", dataSchema |-> "none"]

\* What only the agent operations and the agent object change.
AgentState == <<warned, agentObj>>

\* No LlamaParseReader has been constructed.
NoReader ==
  [stage |-> "new", ignoreErrors |-> FALSE, keyValid |-> TRUE,
   maxErrorCount |-> 0, backoffPattern |-> "constant", checkInterval |-> 1,
   maxCheckInterval |-> 1, step |-> 1, errors |-> 0, iterations |-> 0,
   k |-> 0, interval |-> 1,
   delay |-> 0, outcome |-> "none", value |-> "none", error |-> "none",
   at |-> "none"]

SdkName == "X-SDK-Name"
Authorization == "Authorization"
CustomHeader == "X-Custom-Header"

\* The global client of ./api carries the SDK name in its configuration; no
\* instance client is built, no configuration saved, no request sent.
NoHttp ==
  [global |-> {SdkName}, prev |-> {}, saved |-> FALSE, extract |-> {},
   classify |-> {}, built |-> {}, threw |-> FALSE, phase |-> "initial",
   keyed |-> FALSE, via |-> "none", sent |-> {}, sentPhase |-> "none",
   sentKeyed |-> FALSE, answer |-> "none",
   key |-> [extract |-> "none", classify |-> "none", parse |-> "none"],
   last |-> [who |-> "none", apiKey |-> "undefined", env |-> "undefined",
             threw |-> FALSE]]

\* A file name is <<stem, extension>>; no uploadFile call has built a File.
NoName == <<"undefined", "undefined">>
NoFile ==
  [stage |-> "none", filePath |-> "undefined", fileContent |-> "undefined",
   fileName |-> NoName, signature |-> "undefined", name |-> NoName]

\* The callers that run an extract call each, at the same time.
Callers == {"A", "B"}

\* The files handed to the calls.
Inputs == {"a.pdf", "b.pdf"}

\* The locals of one extract call (fileId, jobId), what its requests
\* carried and what its own upload and create-job calls returned; the file
\* it was given, whether that file had been uploaded before when the call
\* began, and whether the call has issued an upload request.
NoChain ==
  [pc |-> "idle", fileId |-> "none", jobId |-> "none",
   uploaded |-> "none", created |-> "none",
   sentFileId |-> "none", polledJobId |-> "none", fetchedJobId |-> "none",
   input |-> "none", known |-> FALSE, uploadSent |-> FALSE]

\* No call is running; no id has been returned to anyone; the service has
\* stored no file.
NoChains ==
  [call |-> [c \in Callers |-> NoChain], lastFileId |-> "none",
   lastJobId |-> "none", stored |-> [i \in Inputs |-> "none"]]

\* Metadata is a map over MetaKeys; a value names where it came from, and
\* a key that is not set holds "absent".
MetaKeys == {"file_name", "file_id", "page_index", "figure_name"}
NoMeta == [k \in MetaKeys |-> "absent"]
Meta(from, keys) == [k \in MetaKeys |-> IF k \in keys THEN from ELSE "absent"]

\* A value that may be undefined.
Undefined(v) == [defined |-> FALSE, value |-> v]
Defined(v) == [defined |-> TRUE, value |-> v]

\* No LlamaCloudRetriever has been constructed.  params are the two page
\* flags the constructor was given.
NoRetriever ==
  [stage |-> "none", image |-> "undefined", screenshot |-> "undefined",
   figure |-> "undefined", params |-> <<"undefined", "undefined">>,
   warned |-> FALSE, requests |-> <<>>,
   metadata |-> Undefined(NoMeta), image_nodes |-> Undefined(<<>>),
   page_figure_nodes |-> Undefined(<<>>), textNodes |-> <<>>,
   shotsDone |-> FALSE, screenshotNodes |-> <<>>,
   figuresDone |-> FALSE, figureNodes |-> <<>>,
   outcome |-> "none", nodes |-> <<>>]

NoOutcome == [kind |-> "none", at |-> "none"]
Outcome(kind, at) == [kind |-> kind, at |-> at]

Init ==
  /\ op = "none"
  /\ args = NoArgs
  /\ pc = "idle"
  /\ outcome = NoOutcome
  /\ uploads = <<>>
  /\ fileIds = <<>>
  /\ jobId = "none"
  /\ retries = 0
  /\ numIterations = 0
  /\ result = "none"
  /\ createReq = <<>>
  /\ calls = 0
  /\ fails = 0
  /\ slept = 0
  /\ empties = 0
  /\ allPending = TRUE
  /\ body = NoBody
  /\ warned = FALSE
  /\ agentObj = NoAgent
  /\ reader = NoReader
  /\ http = NoHttp
  /\ fileObj = NoFile
  /\ chains = NoChains
  /\ retriever = NoRetriever
  /\ lastResp = [endpoint |-> "none", shape |-> "none", status |-> "NA", id |-> "none"]

\* The environment may answer r now (2xx-without-data answers are capped).
MayAnswer(r) == r.shape = "empty" => empties < MaxEmpty

\* Endpoint e has been called and has answered r.
Answered(e, r) ==
  /\ empties' = IF r.shape = "empty" THEN empties + 1 ELSE empties
  /\ lastResp' = [endpoint |-> e, shape |-> r.shape, status |-> r.status, id |-> r.id]

\* The running loop has issued one more call and got r.
Counted(r) ==
  /\ calls' = calls + 1
  /\ fails' = IF r.shape = "fail" THEN fails + 1 ELSE fails

\* No remote call in this step.
Quiet == UNCHANGED <<calls, fails, empties, allPending, lastResp>>

\* A retry loop that goes on with the counter of the loop before it.
Entered_shared ==
  /\ UNCHANGED retries
  /\ calls' = 0
  /\ fails' = 0

\* A function with a retry loop is entered: its counters start at zero.
Entered ==
  /\ retries' = 0
  /\ calls' = 0
  /\ fails' = 0

Throw(kind, at) ==
  /\ outcome' = Outcome(kind, at)
  /\ pc' = "done"

\* ------------------------------------------------------------ uploadFile
NewTask(fp, fc, st) ==
  [filePath |-> fp, fileContent |-> fc, state |-> st, file |-> "none",
   retries |-> 0, calls |-> 0, fails |-> 0,
   id |-> "none", error |-> "none"]

Settled(t) == t.state \in {"done", "failed"}

\* fileUpload.ts 50-85: which File is built from the arguments, or which
\* error is thrown before the retry loop is entered.
uploadFile_input(t) ==
  IF t.filePath = "undefined" /\ t.fileContent = "undefined"
    THEN [t EXCEPT !.state = "failed", !.error = "inputError"]
  ELSE IF t.filePath # "undefined"
    THEN IF t.filePath = "unreadable"
           THEN [t EXCEPT !.state = "failed", !.error = "fsError"]
           ELSE [t EXCEPT !.state = "loop", !.file = "fromPath"]
  ELSE IF t.fileContent \in {"File", "Buffer", "Uint8Array", "string"}
    THEN [t EXCEPT !.state = "loop", !.file = "fromContent"]
  ELSE [t EXCEPT !.state = "failed", !.error = "inputError"]

\* fileUpload.ts 99-103: the budget test at the top of the loop.
uploadFile_exhausted(n, R) == n > R

\* An attempt that returns data.id on every 2xx response, with or without
\* data.
uploadFile_attempt_anyOk(t, r) ==
  LET c == [t EXCEPT !.calls = @ + 1] IN
  IF r.shape = "neterr"
    THEN [c EXCEPT !.state = "failed", !.error = "networkError"]
  ELSE IF ~Ok(r)
    THEN [c EXCEPT !.retries = @ + 1, !.fails = @ + 1]
  ELSE [c EXCEPT !.state = "done", !.id = r.id]

\* fileUpload.ts 104-118: one attempt, given the response r (every
\* retries++ is followed by one sleep, 109-110).
uploadFile_attempt(t, r) ==
  LET c == [t EXCEPT !.calls = @ + 1] IN
  IF r.shape = "neterr"
    THEN [c EXCEPT !.state = "failed", !.error = "networkError"]
  ELSE LET a == IF ~Ok(r)
                  THEN [c EXCEPT !.retries = @ + 1, !.fails = @ + 1]
                  ELSE c
       IN IF Ok(r) /\ HasData(r)
            THEN [a EXCEPT !.state = "done", !.id = r.id]
            ELSE a

\* A caller that lets the error of a failed upload through in classify too.
AfterUpload_aborting(i, t) ==
  IF op \in {"extract", "extractStateless"} /\ t.state = "done"
    THEN /\ fileIds' = <<t.id>>
         /\ uploads' = <<>>
         /\ pc' = "create"
         /\ Entered
         /\ outcome' = outcome
  ELSE IF t.state = "failed"
    THEN /\ Throw(t.error, "upload")
         /\ uploads' = [uploads EXCEPT ![i] = t]
         /\ UNCHANGED <<fileIds, retries, calls, fails>>
  ELSE IF t.state = "done"
    THEN /\ uploads' = [uploads EXCEPT ![i] =
                          [NewTask(t.filePath, t.fileContent, "done") EXCEPT !.id = t.id]]
         /\ UNCHANGED <<fileIds, pc, outcome, retries, calls, fails>>
  ELSE /\ uploads' = [uploads EXCEPT ![i] = t]
       /\ UNCHANGED <<fileIds, pc, outcome, retries, calls, fails>>

\* The caller's side of an uploadFile call that has moved to t.
\* extract / extractStateless (extract.ts 381-390, 460-469) await the id
\* and go on to create the job, or let the error through.  classify
\* (classify.ts 192-214) catches the error and keeps null for that file;
\* the uploads are joined in awaitUploads.
AfterUpload(i, t) ==
  IF op \in {"extract", "extractStateless"} /\ t.state = "done"
    THEN /\ fileIds' = <<t.id>>
         /\ uploads' = <<>>
         /\ pc' = "create"
         /\ Entered
         /\ outcome' = outcome
  ELSE IF op \in {"extract", "extractStateless"} /\ t.state = "failed"
    THEN /\ Throw(t.error, "upload")
         /\ uploads' = [uploads EXCEPT ![i] = t]
         /\ UNCHANGED <<fileIds, retries, calls, fails>>
  ELSE IF t.state = "done"
    THEN /\ uploads' = [uploads EXCEPT ![i] =
                          [NewTask(t.filePath, t.fileContent, "done") EXCEPT !.id = t.id]]
         /\ UNCHANGED <<fileIds, pc, outcome, retries, calls, fails>>
  ELSE /\ uploads' = [uploads EXCEPT ![i] = t]
       /\ UNCHANGED <<fileIds, pc, outcome, retries, calls, fails>>

\* fileUpload.ts 26-120, one step of call i.
uploadFile(i) ==
  /\ pc \in {"upload", "uploadPaths", "uploadContents"}
  /\ i \in DOMAIN uploads
  /\ \/ /\ uploads[i].state = "new"
        /\ AfterUpload(i, uploadFile_input(uploads[i]))
        /\ slept' = 0
        /\ UNCHANGED <<empties, lastResp>>
     \/ /\ uploads[i].state = "loop"
        /\ uploadFile_exhausted(uploads[i].retries, args.maxRetriesOnError)
        /\ AfterUpload(i, [uploads[i] EXCEPT !.state = "failed",
                                             !.error = "retryExhausted"])
        /\ slept' = 0
        /\ UNCHANGED <<empties, lastResp>>
     \/ /\ uploads[i].state = "loop"
        /\ ~uploadFile_exhausted(uploads[i].retries, args.maxRetriesOnError)
        /\ \E r \in UploadResponses :
             /\ MayAnswer(r)
             /\ Answered("upload", r)
             /\ LET t == uploadFile_attempt(uploads[i], r) IN
                  /\ AfterUpload(i, t)
                  /\ slept' = t.retries - uploads[i].retries
  /\ UNCHANGED <<op, args, jobId, numIterations, result, createReq, allPending,
                 body, AgentState>>
  /\ UNCHANGED Aux

\* ------------------------------------------------- extract, extractStateless
\* extract.ts 362-390 and 430-469: the facade call starts by uploading.
StartChain(name) ==
  /\ pc = "idle"
  /\ \E fp \in FilePaths, fc \in FileContents,
        R \in 0..MaxRetries, N \in 0..MaxIter,
        a \in AgentIds, s \in Schemas, c \in Configs :
       /\ args' = IF name = "extract"
                    THEN [NoArgs EXCEPT !.maxRetriesOnError = R,
                                        !.maxIterations = N, !.agentId = a]
                    ELSE [NoArgs EXCEPT !.maxRetriesOnError = R,
                                        !.maxIterations = N,
                                        !.dataSchema = s, !.config = c]
       /\ uploads' = <<NewTask(fp, fc, "new")>>
  /\ op' = name
  /\ pc' = "upload"
  /\ UNCHANGED <<outcome, fileIds, jobId, retries, numIterations, result,
                 createReq, calls, fails, slept, empties, allPending,
                 body, AgentState, lastResp>>
  /\ UNCHANGED Aux

extract == StartChain("extract")

extractStateless == StartChain("extractStateless")

\* ------------------------------------------------------ createExtractJob
\* A budget test that gives up one attempt early.
createExtractJob_exhausted_early(n, R) == n >= R

\* extract.ts 224-228: the budget test at the top of the loop.
createExtractJob_exhausted(n, R) == n > R

\* extract.ts 266-271: a 2xx answer whose job is already CANCELLED or ERROR
\* is retried.
createExtractJob_retryable(status) == status \in {"CANCELLED", "ERROR"}

\* A request body that also carries the schema and config arguments when an
\* agent id is given.
extract_body_all(name, a) ==
  [extraction_agent_id |-> IF name = "extract" THEN a.agentId ELSE "absent",
   data_schema |-> IF name = "extract" THEN SavedSchema ELSE a.dataSchema,
   config |-> IF name = "extract" THEN "c1" ELSE a.config]

\* extract.ts 391-394 and 470-474: the body of the create-job request, the
\* file id apart.
extract_body(name, a) ==
  IF name = "extract"
    THEN [NoBody EXCEPT !.extraction_agent_id = a.agentId]
    ELSE [NoBody EXCEPT !.data_schema = a.dataSchema, !.config = a.config]

\* A non-2xx response that counts two retries.
createExtractJob_notOk_twice(n, r) == IF ~Ok(r) THEN n + 2 ELSE n

\* extract.ts 253-263: a non-2xx response counts one retry.
createExtractJob_notOk(n, r) == IF ~Ok(r) THEN n + 1 ELSE n

\* extract.ts 222-277 (called at 404-409 and 483-488), one turn of the loop.
createExtractJob ==
  /\ pc = "create"
  /\ op \in {"extract", "extractStateless"}
  /\ \/ /\ createExtractJob_exhausted(retries, args.maxRetriesOnError)
        /\ Throw("retryExhausted", "create")
        /\ slept' = 0
        /\ Quiet
        /\ UNCHANGED <<retries, jobId, numIterations, createReq, body>>
     \/ /\ ~createExtractJob_exhausted(retries, args.maxRetriesOnError)
        /\ \E r \in CreateResponses :
             /\ MayAnswer(r)
             /\ Answered("create", r)
             /\ createReq' = fileIds
             /\ body' = extract_body(op, args)
             /\ UNCHANGED allPending
             /\ IF r.shape = "neterr"
                  THEN /\ Throw("networkError", "create")
                       /\ Counted(r)
                       /\ slept' = 0
                       /\ UNCHANGED <<retries, jobId, numIterations>>
                  ELSE LET n1 == createExtractJob_notOk(retries, r)
                           s1 == IF ~Ok(r) THEN 1 ELSE 0
                       IN IF HasData(r) /\ createExtractJob_retryable(r.status)
                            THEN /\ retries' = n1 + 1
                                 /\ slept' = s1 + 1
                                 /\ Counted(r)
                                 /\ UNCHANGED <<pc, outcome, jobId, numIterations>>
                          ELSE IF HasData(r)
                            THEN /\ jobId' = r.id
                                 /\ pc' = "poll"
                                 /\ Entered
                                 /\ numIterations' = 0
                                 /\ slept' = s1
                                 /\ UNCHANGED outcome
                          ELSE /\ retries' = n1
                               /\ slept' = s1
                               /\ Counted(r)
                               /\ UNCHANGED <<pc, outcome, jobId, numIterations>>
  /\ UNCHANGED <<op, args, uploads, fileIds, result, AgentState>>
  /\ UNCHANGED Aux

\* -------------------------------------------------- pollForJobCompletion
\* extract.ts 295-297: the budget test at the top of the loop.
pollForJobCompletion_exhausted(n, N) == n > N

\* A status test that polls on when the job reports ERROR.
pollForJobCompletion_status_lenient(status) ==
  IF status = "CANCELLED" THEN "throw"
  ELSE IF status = "SUCCESS" THEN "true"
  ELSE "again"

\* A status test that takes every status but CANCELLED and ERROR for success.
pollForJobCompletion_status_eager(status) ==
  IF status = "CANCELLED" \/ status = "ERROR" THEN "throw"
  ELSE "true"

\* extract.ts 304-311: what a status read from the response leads to.
pollForJobCompletion_status(status) ==
  IF status = "CANCELLED" \/ status = "ERROR" THEN "throw"
  ELSE IF status = "SUCCESS" THEN "true"
  ELSE "again"

\* A non-2xx response that costs nothing of the iteration budget.
pollForJobCompletion_notOk_free(n, r) == n

\* extract.ts 299-301: a non-2xx response counts one iteration.
pollForJobCompletion_notOk(n, r) == IF ~Ok(r) THEN n + 1 ELSE n

\* A caller that submits the job again when the poller throws.
extract_afterPoll_resubmit(res) ==
  IF res = "true" THEN "result"
  ELSE IF res = "throw" THEN "create"
  ELSE "done"

\* A caller that fetches the result also when the poller has given up.
extract_afterPoll_fetch(res) ==
  IF res \in {"true", "false"} THEN "result" ELSE "done"

\* extract.ts 410-427, classify.ts 265-282: what the caller does when the
\* poller has returned true or false or has thrown: it goes on to
\* getJobResult, or it is done (it throws the timeout error, or lets the
\* poller's error through).
extract_afterPoll(res) == IF res = "true" THEN "result" ELSE "done"

\* One turn of the poll loop and, when the loop returns, the caller's test
\* of its result (extract.ts 410-418): false is turned into the timeout
\* error, true leads on to getJobResult.
PollLoop ==
  /\ pc = "poll"
  /\ \/ /\ pollForJobCompletion_exhausted(numIterations, args.maxIterations)
        /\ outcome' = Outcome("timeout", "poll")
        /\ pc' = extract_afterPoll("false")
        /\ slept' = 0
        /\ Quiet
        /\ UNCHANGED <<retries, numIterations>>
     \/ /\ ~pollForJobCompletion_exhausted(numIterations, args.maxIterations)
        /\ \E r \in StatusResponses :
             /\ MayAnswer(r)
             /\ Answered("status", r)
             /\ allPending' = (allPending /\ HasData(r)
                                 /\ r.status \in {"PENDING", "RUNNING"})
             /\ IF r.shape = "neterr"
                  THEN /\ Throw("networkError", "status")
                       /\ Counted(r)
                       /\ slept' = 0
                       /\ UNCHANGED <<retries, numIterations>>
                  ELSE LET n1 == pollForJobCompletion_notOk(numIterations, r)
                       IN IF ~HasData(r)
                            THEN /\ numIterations' = n1
                                 /\ slept' = 0
                                 /\ Counted(r)
                                 /\ UNCHANGED <<pc, outcome, retries>>
                          ELSE IF pollForJobCompletion_status(r.status) = "throw"
                            THEN /\ outcome' = Outcome("jobFailed", "status")
                                 /\ pc' = extract_afterPoll("throw")
                                 /\ numIterations' = n1
                                 /\ slept' = 0
                                 /\ Counted(r)
                                 /\ UNCHANGED retries
                          ELSE IF pollForJobCompletion_status(r.status) = "true"
                            THEN /\ pc' = extract_afterPoll("true")
                                 /\ Entered
                                 /\ numIterations' = n1
                                 /\ slept' = 0
                                 /\ UNCHANGED outcome
                          ELSE /\ numIterations' = n1 + 1
                               /\ slept' = 1
                               /\ Counted(r)
                               /\ UNCHANGED <<pc, outcome, retries>>
  /\ UNCHANGED <<op, args, uploads, fileIds, jobId, result, createReq, body,
                 AgentState>>
  /\ UNCHANGED Aux

\* extract.ts 279-314.
pollForJobCompletion ==
  /\ op \in {"extract", "extractStateless"}
  /\ PollLoop

\* classify.ts 78-115: the same loop over the classify status endpoint.
classify_pollForJobCompletion ==
  /\ op = "classify"
  /\ PollLoop

\* ---------------------------------------------------------- getJobResult
\* A budget test that gives up one attempt early.
getJobResult_exhausted_early(n, R) == n >= R

\* extract.ts 335-339: the budget test at the top of the loop.
getJobResult_exhausted(n, R) == n > R

\* What the loop does with a response that carries no data: the extraction
\* loop goes round again (extract.ts 353-359), the classification loop
\* throws (classify.ts 156-162).
getJobResult_noData(kind) == IF kind = "classify" THEN "throw" ELSE "again"

\* The body of a 2xx result response with data: {data, extraction_metadata}.
RawResult(d) == [data |-> d, extraction_metadata |-> "metadata"]

\* A normalisation that copies the data into both fields.
getJobResult_return_dataTwice(kind, d) ==
  IF kind = "classify" THEN d
  ELSE [data |-> RawResult(d).data, extractionMetadata |-> RawResult(d).data]

\* What getJobResult returns for a response with data: the extraction
\* result is rebuilt as {data, extractionMetadata} (extract.ts 353-358), the
\* classification result is response.data itself (classify.ts 156-158).
getJobResult_return(kind, d) ==
  IF kind = "classify" THEN d
  ELSE [data |-> RawResult(d).data,
        extractionMetadata |-> RawResult(d).extraction_metadata]

ResultLoop ==
  /\ pc = "result"
  /\ \/ /\ getJobResult_exhausted(retries, args.maxRetriesOnError)
        /\ Throw("retryExhausted", "result")
        /\ slept' = 0
        /\ Quiet
        /\ UNCHANGED <<retries, result>>
     \/ /\ ~getJobResult_exhausted(retries, args.maxRetriesOnError)
        /\ \E r \in ResultResponses :
             /\ MayAnswer(r)
             /\ Answered("result", r)
             /\ UNCHANGED allPending
             /\ Counted(r)
             /\ IF r.shape = "neterr"
                  THEN /\ Throw("networkError", "result")
                       /\ slept' = 0
                       /\ UNCHANGED <<retries, result>>
                  ELSE /\ retries' = IF ~Ok(r) THEN retries + 1 ELSE retries
                       /\ slept' = IF ~Ok(r) THEN 1 ELSE 0
                       /\ IF HasData(r)
                            THEN /\ result' = getJobResult_return(op, r.id)
                                 /\ outcome' = Outcome("returned", "result")
                                 /\ pc' = "done"
                          ELSE IF getJobResult_noData(op) = "throw"
                            THEN /\ Throw("noData", "result")
                                 /\ UNCHANGED result
                          ELSE UNCHANGED <<pc, outcome, result>>
  /\ UNCHANGED <<op, args, uploads, fileIds, jobId, numIterations, createReq,
                 body, AgentState>>
  /\ UNCHANGED Aux

\* extract.ts 316-360.
getJobResult ==
  /\ op \in {"extract", "extractStateless"}
  /\ ResultLoop

\* classify.ts 117-164.
classify_getJobResult ==
  /\ op = "classify"
  /\ ResultLoop

\* -------------------------------------------------------------- classify
SeqsUpTo(S, n) == UNION {[1..k -> S] : k \in 0..n}

IsPathTask(t) == t.filePath # "undefined"

\* A join that lists the ids of the uploads last first.
IdsOf_reversed(ts) == [k \in 1..Len(ts) |-> ts[Len(ts) + 1 - k].id]

IdsOf(ts) == [k \in 1..Len(ts) |-> ts[k].id]

\* classify.ts 184-214 / 220-243: no input at all is an error; otherwise one
\* uploadFile call per path is started, those for the contents follow once
\* the paths are through.
classify ==
  /\ pc = "idle"
  /\ op' = "classify"
  /\ \E hasP \in BOOLEAN, hasC \in BOOLEAN,
        ps \in SeqsUpTo(ClassifyPaths, MaxFiles),
        cs \in SeqsUpTo(ClassifyContents, MaxFiles),
        R \in 0..MaxRetries, N \in 0..MaxIter :
       /\ Len(ps) + Len(cs) <= MaxFiles
       /\ ~hasP => ps = <<>>
       /\ ~hasC => cs = <<>>
       /\ args' = [NoArgs EXCEPT !.maxRetriesOnError = R, !.maxIterations = N]
       /\ IF ~hasP /\ ~hasC
            THEN /\ Throw("inputError", "classify")
                 /\ uploads' = <<>>
            ELSE /\ pc' = "uploadPaths"
                 /\ outcome' = outcome
                 /\ uploads' =
                      [k \in 1..Len(ps) |-> NewTask(ps[k], "undefined", "new")]
                      \o [k \in 1..Len(cs) |-> NewTask("undefined", cs[k], "waiting")]
  /\ UNCHANGED <<fileIds, jobId, retries, numIterations, result, createReq,
                 calls, fails, slept, empties, allPending, body, AgentState,
                 lastResp>>
  /\ UNCHANGED Aux

\* classify.ts 216-217 and 245-253: Promise.all over the uploads of one
\* group, the ids of those that succeeded are appended in input order; with
\* both groups through, an empty id list is an error.
awaitUploads ==
  /\ op = "classify"
  /\ \/ /\ pc = "uploadPaths"
        /\ \A k \in DOMAIN uploads : IsPathTask(uploads[k]) => Settled(uploads[k])
        /\ fileIds' = IdsOf(SelectSeq(uploads,
                        LAMBDA t : IsPathTask(t) /\ t.state = "done"))
        /\ uploads' = [k \in DOMAIN uploads |->
                         IF uploads[k].state = "waiting"
                           THEN [uploads[k] EXCEPT !.state = "new"]
                           ELSE uploads[k]]
        /\ pc' = "uploadContents"
        /\ UNCHANGED <<outcome, retries, calls, fails>>
     \/ /\ pc = "uploadContents"
        /\ \A k \in DOMAIN uploads : Settled(uploads[k])
        /\ LET ids == fileIds \o IdsOf(SelectSeq(uploads,
                        LAMBDA t : ~IsPathTask(t) /\ t.state = "done"))
           IN /\ fileIds' = ids
              /\ IF Len(ids) = 0
                   THEN /\ Throw("noFiles", "upload")
                        /\ UNCHANGED <<uploads, retries, calls, fails>>
                   ELSE /\ pc' = "create"
                        /\ uploads' = <<>>
                        /\ Entered
                        /\ UNCHANGED outcome
  /\ slept' = 0
  /\ UNCHANGED <<op, args, jobId, numIterations, result, createReq, empties,
                 allPending, body, AgentState, lastResp>>
  /\ UNCHANGED Aux

\* classify.ts 50-54: the budget test at the top of the loop.
createClassifyJob_exhausted(n, R) == n > R

\* classify.ts 22-76 (called at 255-264), one turn of the loop.
createClassifyJob ==
  /\ pc = "create"
  /\ op = "classify"
  /\ \/ /\ createClassifyJob_exhausted(retries, args.maxRetriesOnError)
        /\ Throw("retryExhausted", "create")
        /\ slept' = 0
        /\ Quiet
        /\ UNCHANGED <<retries, jobId, numIterations, createReq, body>>
     \/ /\ ~createClassifyJob_exhausted(retries, args.maxRetriesOnError)
        /\ \E r \in CreateResponses :
             /\ MayAnswer(r)
             /\ Answered("create", r)
             /\ createReq' = fileIds
             /\ body' = NoBody
             /\ UNCHANGED allPending
             /\ IF r.shape = "neterr"
                  THEN /\ Throw("networkError", "create")
                       /\ Counted(r)
                       /\ slept' = 0
                       /\ UNCHANGED <<retries, jobId, numIterations>>
                ELSE IF ~Ok(r)
                  THEN /\ retries' = retries + 1
                       /\ slept' = 1
                       /\ Counted(r)
                       /\ UNCHANGED <<pc, outcome, jobId, numIterations>>
                ELSE IF HasData(r)
                  THEN /\ jobId' = r.id
                       /\ pc' = "poll"
                       /\ Entered
                       /\ numIterations' = 0
                       /\ slept' = 0
                       /\ UNCHANGED outcome
                ELSE /\ Throw("noData", "create")
                     /\ Counted(r)
                     /\ slept' = 0
                     /\ UNCHANGED <<retries, jobId, numIterations>>
  /\ UNCHANGED <<op, args, uploads, fileIds, result, AgentState>>
  /\ UNCHANGED Aux

\* ------------------------------------ createAgent, getAgent, deleteAgent
\* LlamaExtract.createAgent / getAgent / deleteAgent (extract.ts 1309-1377)
\* hand their arguments and the instance's client to the function of the
\* same name.
StartAgentCall(name) ==
  /\ pc = "idle"
  /\ op' = name
  /\ pc' = name
  /\ \E R \in 0..MaxRetries, id \in BOOLEAN, nm \in BOOLEAN :
       /\ name = "createAgent" => ~id /\ nm
       /\ name = "deleteAgent" => id /\ ~nm
       /\ args' = [NoArgs EXCEPT !.maxRetriesOnError = R, !.id = id, !.name = nm]
  /\ UNCHANGED <<outcome, uploads, fileIds, jobId, retries, numIterations,
                 result, createReq, calls, fails, slept, empties, allPending,
                 body, AgentState, lastResp>>
  /\ UNCHANGED Aux

LlamaExtract_createAgent == StartAgentCall("createAgent")

LlamaExtract_getAgent == StartAgentCall("getAgent")

LlamaExtract_deleteAgent == StartAgentCall("deleteAgent")

\* What a loop returns on a 2xx response: true (deleteAgent, extract.ts
\* 546-548) or the response's data (createAgent, getAgent).
AgentValue(e, r) ==
  IF e = "deleteAgent" THEN "true"
  ELSE IF HasData(r) THEN r.id
  ELSE "undefined"

\* extract.ts 1242-1248, 1340-1342, 1361-1363: LlamaExtract.createAgent and
\* getAgent wrap the agent they got, when they got one, in a
\* LlamaExtractAgent, whose dataSchema field is the agent's data_schema.
LlamaExtractAgent_constructor(e, r) ==
  IF e # "deleteAgent" /\ HasData(r)
    THEN [id |-> r.id, dataSchema |-> SavedSchema]
    ELSE agentObj

\* One turn of a loop that returns on the first 2xx response.
AgentLoop(e, exhausted) ==
  /\ \/ /\ exhausted
        /\ Throw("retryExhausted", e)
        /\ slept' = 0
        /\ Quiet
        /\ UNCHANGED <<retries, result, agentObj>>
     \/ /\ ~exhausted
        /\ \E r \in AgentResponses :
             /\ MayAnswer(r)
             /\ Answered(e, r)
             /\ UNCHANGED allPending
             /\ Counted(r)
             /\ IF r.shape = "neterr"
                  THEN /\ Throw("networkError", e)
                       /\ slept' = 0
                       /\ UNCHANGED <<retries, result, agentObj>>
                ELSE IF ~Ok(r)
                  THEN /\ retries' = retries + 1
                       /\ slept' = 1
                       /\ UNCHANGED <<pc, outcome, result, agentObj>>
                ELSE /\ result' = AgentValue(e, r)
                     /\ agentObj' = LlamaExtractAgent_constructor(e, r)
                     /\ outcome' = Outcome("returned", e)
                     /\ pc' = "done"
                     /\ slept' = 0
                     /\ UNCHANGED retries
  /\ UNCHANGED <<op, args, uploads, fileIds, jobId, numIterations, createReq,
                 body>>

\* extract.ts 71-75: the budget test at the top of the loop.
createAgent_exhausted(n, R) == n > R

\* extract.ts 34-92, one turn of the loop.
createAgent ==
  /\ pc = "createAgent"
  /\ AgentLoop("createAgent",
               createAgent_exhausted(retries, args.maxRetriesOnError))
  /\ UNCHANGED warned
  /\ UNCHANGED Aux

\* An endpoint selection that prefers the name when both are given.
getAgent_endpoint_byName(id, name) ==
  IF ~id /\ ~name THEN "none"
  ELSE IF name THEN "getAgentByName"
  ELSE "getAgentById"

\* extract.ts 103-105, 140, 175: which endpoint the arguments select.
getAgent_endpoint(id, name) ==
  IF ~id /\ ~name THEN "none"
  ELSE IF id /\ name THEN "getAgentById"
  ELSE IF name /\ ~id THEN "getAgentByName"
  ELSE "getAgentById"

\* extract.ts 117-121, 152-156, 186-190: the budget test of the three loops.
getAgent_exhausted(n, R) == n > R

\* extract.ts 105-106: with both id and name the call warns that only the
\* id is used.
getAgent_warns(id, name) == id /\ name

\* extract.ts 94-212, the argument test and one turn of the selected loop.
getAgent ==
  /\ pc = "getAgent"
  /\ warned' = (warned \/ getAgent_warns(args.id, args.name))
  /\ IF getAgent_endpoint(args.id, args.name) = "none"
       THEN /\ Throw("inputError", "getAgent")
            /\ slept' = 0
            /\ Quiet
            /\ UNCHANGED <<op, args, uploads, fileIds, jobId, numIterations,
                           createReq, body, retries, result, agentObj>>
       ELSE AgentLoop(getAgent_endpoint(args.id, args.name),
                      getAgent_exhausted(retries, args.maxRetriesOnError))
  /\ UNCHANGED Aux

\* extract.ts 525-531: the budget test at the top of the loop.
deleteAgent_exhausted(n, R) == n > R

\* extract.ts 509-550, one turn of the loop.
deleteAgent ==
  /\ pc = "deleteAgent"
  /\ AgentLoop("deleteAgent",
               deleteAgent_exhausted(retries, args.maxRetriesOnError))
  /\ UNCHANGED warned
  /\ UNCHANGED Aux

\* ------------------------------------------------------ LlamaExtractAgent
\* The caller assigns another schema to the dataSchema field of the agent
\* object (a public field, extract.ts 1230-1240); no request is made.
LlamaExtractAgent_dataSchema ==
  /\ pc = "done"
  /\ op \in {"createAgent", "getAgent"}
  /\ agentObj # NoAgent
  /\ \E s \in Schemas \ {agentObj.dataSchema} :
       agentObj' = [agentObj EXCEPT !.dataSchema = s]
  /\ UNCHANGED <<op, args, pc, outcome, uploads, fileIds, jobId, retries,
                 numIterations, result, createReq, calls, fails, slept,
                 empties, allPending, body, warned, lastResp>>
  /\ UNCHANGED Aux

\* extract.ts 1250-1281: LlamaExtractAgent.extract hands the id of the agent
\* it wraps, and its client, to extract; a new call starts.
LlamaExtractAgent_extract ==
  /\ pc = "done"
  /\ op \in {"createAgent", "getAgent"}
  /\ agentObj # NoAgent
  /\ \E fp \in FilePaths, fc \in FileContents,
        R \in 0..MaxRetries, N \in 0..MaxIter :
       /\ args' = [NoArgs EXCEPT !.maxRetriesOnError = R, !.maxIterations = N,
                                 !.agentId = agentObj.id]
       /\ uploads' = <<NewTask(fp, fc, "new")>>
  /\ op' = "extract"
  /\ pc' = "upload"
  /\ outcome' = NoOutcome
  /\ result' = "none"
  /\ Entered
  /\ slept' = 0
  /\ empties' = 0
  /\ warned' = FALSE
  /\ lastResp' = [endpoint |-> "none", shape |-> "none", status |-> "NA", id |-> "none"]
  /\ UNCHANGED <<fileIds, jobId, numIterations, createReq, allPending, body,
                 agentObj>>
  /\ UNCHANGED Aux

Next ==
  \/ extract
  \/ extractStateless
  \/ classify
  \/ \E i \in 1..MaxFiles : uploadFile(i)
  \/ awaitUploads
  \/ createExtractJob
  \/ createClassifyJob
  \/ pollForJobCompletion
  \/ classify_pollForJobCompletion
  \/ getJobResult
  \/ classify_getJobResult
  \/ LlamaExtract_createAgent
  \/ LlamaExtract_getAgent
  \/ LlamaExtract_deleteAgent
  \/ createAgent
  \/ getAgent
  \/ deleteAgent
  \/ LlamaExtractAgent_dataSchema
  \/ LlamaExtractAgent_extract

Spec == Init /\ [][Next]_vars

\* ========================================================= LlamaParseReader
\* The parse facade: upload, submit, poll and fetch behind one loadData call,
\* with the retry budget maxErrorCount, the poll budget MaxPolls, the backoff
\* options checkInterval, maxCheckInterval, backoffPattern and the
\* ignoreErrors option.  Intervals are whole time units.
BackoffPatterns == {"constant", "linear", "exponential"}
Steps == 1..2

Min(a, b) == IF a <= b THEN a ELSE b

\* The interval of the next iteration, computed from the current one without
\* a cap.
Reader_nextInterval_uncapped(pattern, interval, step, cap) ==
  CASE pattern = "constant" -> interval
    [] pattern = "linear" -> interval + step
    [] pattern = "exponential" -> interval * 2

\* The interval of the next iteration: fixed, grown by a fixed step and
\* capped, or doubled and capped.
Reader_nextInterval(pattern, interval, step, cap) ==
  CASE pattern = "constant" -> interval
    [] pattern = "linear" -> Min(interval + step, cap)
    [] pattern = "exponential" -> Min(interval * 2, cap)

\* A facade that raises every error, whatever ignoreErrors says.
Reader_onError_raise(ignoreErrors) == [outcome |-> "raised", value |-> "none"]

\* How the facade ends on an error: with ignoreErrors it swallows the error
\* and returns an empty list, otherwise it raises.
Reader_onError(ignoreErrors) ==
  IF ignoreErrors THEN [outcome |-> "returned", value |-> "empty"]
  ELSE [outcome |-> "raised", value |-> "none"]

Reader_fail(error, at) ==
  reader' = [reader EXCEPT !.stage = "done", !.error = error, !.at = at,
                           !.outcome = Reader_onError(reader.ignoreErrors).outcome,
                           !.value = Reader_onError(reader.ignoreErrors).value]

\* new LlamaParseReader({apiKey, ignoreErrors, backoffPattern, checkInterval,
\* maxCheckInterval, maxErrorCount}).
LlamaParseReader_constructor ==
  /\ reader.stage = "new"
  /\ \E ig \in BOOLEAN, key \in BOOLEAN, R \in 0..MaxRetries,
        p \in BackoffPatterns, base \in 1..MaxInterval,
        cap \in 1..MaxInterval, s \in Steps :
       reader' = [NoReader EXCEPT !.stage = "idle", !.ignoreErrors = ig,
                                  !.keyValid = key, !.maxErrorCount = R,
                                  !.backoffPattern = p, !.checkInterval = base,
                                  !.maxCheckInterval = cap, !.step = s,
                                  !.interval = base]
  /\ UNCHANGED <<ChainVars, retriever, http, fileObj, chains>>

\* reader.loadData(file) / reader.loadDataAsContent(content, name).
LlamaParseReader_loadData ==
  /\ reader.stage = "idle"
  /\ reader' = [reader EXCEPT !.stage = "upload"]
  /\ UNCHANGED <<ChainVars, retriever, http, fileObj, chains>>

\* One remote call of a stage behind the retry wrapper: a failure is retried
\* until maxErrorCount + 1 attempts have failed; a rejected key fails every
\* call.
Reader_RetryWrapper(stage, next) ==
  /\ reader.stage = stage
  /\ \E ok \in BOOLEAN :
       /\ ok => reader.keyValid
       /\ IF ok
            THEN reader' = [reader EXCEPT !.stage = next, !.errors = 0]
          ELSE IF reader.errors + 1 > reader.maxErrorCount
            THEN Reader_fail("retryExhausted", stage)
          ELSE reader' = [reader EXCEPT !.errors = @ + 1]
  /\ UNCHANGED <<ChainVars, retriever, http, fileObj, chains>>

Reader_upload == Reader_RetryWrapper("upload", "submit")

Reader_submit == Reader_RetryWrapper("submit", "poll")

\* One iteration of the poller: a status request, then a terminal state, a
\* transient failure counted against the iteration budget, or a sleep of the
\* current interval (delay number k), after which the interval of the next
\* iteration is computed.
Reader_poll ==
  /\ reader.stage = "poll"
  /\ IF reader.iterations >= MaxPolls
       THEN Reader_fail("timeout", "poll")
     ELSE \E s \in {"pending", "transient", "success", "failed"} :
            CASE s = "transient" ->
                   reader' = [reader EXCEPT !.iterations = @ + 1]
              [] s = "pending" ->
                   reader' = [reader EXCEPT
                     !.iterations = @ + 1,
                     !.k = @ + 1,
                     !.delay = reader.interval,
                     !.interval = Reader_nextInterval(reader.backoffPattern,
                                    reader.interval, reader.step,
                                    reader.maxCheckInterval)]
              [] s = "success" -> reader' = [reader EXCEPT !.stage = "result"]
              [] s = "failed" -> Reader_fail("jobFailed", "poll")
  /\ UNCHANGED <<ChainVars, retriever, http, fileObj, chains>>

\* The fetch of the result; its success ends the call with the documents.
Reader_getResult ==
  /\ reader.stage = "result"
  /\ \E ok \in BOOLEAN :
       IF ok
         THEN reader' = [reader EXCEPT !.stage = "done", !.errors = 0,
                                       !.outcome = "returned",
                                       !.value = "documents"]
       ELSE IF reader.errors + 1 > reader.maxErrorCount
         THEN Reader_fail("retryExhausted", "result")
       ELSE reader' = [reader EXCEPT !.errors = @ + 1]
  /\ UNCHANGED <<ChainVars, retriever, http, fileObj, chains>>

NextReader ==
  \/ LlamaParseReader_constructor
  \/ LlamaParseReader_loadData
  \/ Reader_upload
  \/ Reader_submit
  \/ Reader_poll
  \/ Reader_getResult

SpecReader == Init /\ [][NextReader]_vars

\* ============================================================ HTTP clients
\* The headers of the global client of ./api and of the clients the
\* LlamaExtract and LlamaClassify constructors build, and the headers of the
\* requests sent through them.
\* The apiKey argument of a constructor and the value of the environment
\* variable LLAMA_CLOUD_API_KEY.
ApiKeys == {"undefined", "argKey"}
EnvKeys == {"undefined", "envKey"}

\* A key selection that prefers the environment variable.
constructor_key_envFirst(apiKey, env) ==
  IF env # "undefined" THEN env ELSE apiKey

\* const key = apiKey ?? getEnv("LLAMA_CLOUD_API_KEY") (extract.ts 1292,
\* LlamaClassify.ts 20).
constructor_key(apiKey, env) ==
  IF apiKey # "undefined" THEN apiKey ELSE env

\* The key a LlamaParseReader is constructed with: the apiKey option, else
\* the environment variable.
LlamaParseReader_key(apiKey, env) ==
  IF apiKey # "undefined" THEN apiKey ELSE env

\* An instance client that takes over the configuration of the global one.
LlamaExtract_createClient_inherit(global) == global \cup {Authorization}

\* createClient(createConfig({baseUrl, headers: {Authorization}})): the
\* headers of the client a constructor builds.
LlamaExtract_createClient(global) == {Authorization}

LlamaClassify_createClient(global) == {Authorization}

\* The constructor call of facade who with (apiKey, env) is over: it threw,
\* or it holds the key.
Constructed(h, who, apiKey, env, key) ==
  [h EXCEPT !.threw = (key = "undefined"),
            !.last = [who |-> who, apiKey |-> apiKey, env |-> env,
                      threw |-> (key = "undefined")],
            !.key[who] = IF key = "undefined" THEN @ ELSE key]

\* new LlamaExtract(apiKey, baseUrl): throws without a key, else builds its
\* own client.
LlamaExtract_constructor ==
  /\ \E apiKey \in ApiKeys, env \in EnvKeys :
       LET key == constructor_key(apiKey, env)
           h == Constructed(http, "extract", apiKey, env, key)
       IN IF key = "undefined"
            THEN http' = h
          ELSE http' = [h EXCEPT
                 !.built = @ \cup {"extract"},
                 !.extract = LlamaExtract_createClient(http.global)]
  /\ UNCHANGED <<ChainVars, retriever, reader, fileObj, chains>>

\* new LlamaClassify(apiKey, baseUrl).
LlamaClassify_constructor ==
  /\ \E apiKey \in ApiKeys, env \in EnvKeys :
       LET key == constructor_key(apiKey, env)
           h == Constructed(http, "classify", apiKey, env, key)
       IN IF key = "undefined"
            THEN http' = h
          ELSE http' = [h EXCEPT
                 !.built = @ \cup {"classify"},
                 !.classify = LlamaClassify_createClient(http.global)]
  /\ UNCHANGED <<ChainVars, retriever, reader, fileObj, chains>>

\* The key test of new LlamaParseReader({apiKey, ...}): without a key it
\* throws "API Key is required for LlamaParseReader".
LlamaParseReader_apiKey ==
  /\ \E apiKey \in ApiKeys, env \in EnvKeys :
       http' = Constructed(http, "parse", apiKey, env,
                           LlamaParseReader_key(apiKey, env))
  /\ UNCHANGED <<ChainVars, retriever, reader, fileObj, chains>>

\* new LlamaCloudRetriever(params): initService(clientParams) gives the
\* global client the bearer key.
LlamaCloudRetriever_constructor ==
  /\ http' = [http EXCEPT !.global = @ \cup {Authorization}, !.keyed = TRUE,
                          !.threw = FALSE]
  /\ UNCHANGED <<ChainVars, retriever, reader, fileObj, chains>>

\* const prevConfig = client.getConfig().
client_getConfig ==
  /\ http.phase # "added"
  /\ http' = [http EXCEPT !.prev = http.global, !.saved = TRUE,
                          !.threw = FALSE]
  /\ UNCHANGED <<ChainVars, retriever, reader, fileObj, chains>>

\* client.setConfig({...prevConfig, headers: {...prevConfig.headers,
\* "X-Custom-Header": "custom-value"}}).
client_setConfig_custom ==
  /\ http.saved
  /\ http.phase # "added"
  /\ http' = [http EXCEPT !.global = @ \cup {CustomHeader},
                          !.phase = "added", !.threw = FALSE]
  /\ UNCHANGED <<ChainVars, retriever, reader, fileObj, chains>>

\* client.setConfig(prevConfig).  The client library, which is not part of
\* the repository, either replaces the headers by the given ones or merges
\* the given ones into the current ones.
client_setConfig_restore ==
  /\ http.phase = "added"
  /\ \E h \in {http.prev, http.global \cup http.prev} :
       http' = [http EXCEPT !.global = h, !.phase = "restored",
                            !.threw = FALSE]
  /\ UNCHANGED <<ChainVars, retriever, reader, fileObj, chains>>

\* The headers of a request are those of the client it is sent through.
request_headers(via) ==
  CASE via = "global" -> http.global
    [] via = "extract" -> http.extract
    [] via = "classify" -> http.classify

\* A request: through the global client (listProjectsApiV1ProjectsGet and
\* every generated function called without a client) or through a built
\* instance client (the calls of LlamaExtract and LlamaClassify).
\* The facade methods hand this.client to the module functions, which only
\* place it in the options of the generated call: the client's configuration
\* is read for the request and never written, whatever the answer.
request_reconfigures ==
  /\ \E via \in {"global"} \cup http.built, answer \in {"ok", "fail"} :
       http' = [http EXCEPT
         !.via = via,
         !.sent = request_headers(via),
         !.sentPhase = http.phase,
         !.sentKeyed = (via # "global" \/ http.keyed),
         !.answer = answer,
         !.extract = IF via = "extract" THEN @ \cup {SdkName} ELSE @,
         !.classify = IF via = "classify" THEN @ \cup {SdkName} ELSE @,
         !.threw = FALSE]
  /\ UNCHANGED <<ChainVars, retriever, reader, fileObj, chains>>

request ==
  /\ \E via \in {"global"} \cup http.built, answer \in {"ok", "fail"} :
       http' = [http EXCEPT
         !.via = via,
         !.sent = request_headers(via),
         !.sentPhase = http.phase,
         !.sentKeyed = (via # "global" \/ http.keyed),
         !.answer = answer,
         !.threw = FALSE]
  /\ UNCHANGED <<ChainVars, retriever, reader, fileObj, chains>>

NextClient ==
  \/ LlamaExtract_constructor
  \/ LlamaClassify_constructor
  \/ LlamaParseReader_apiKey
  \/ LlamaCloudRetriever_constructor
  \/ client_getConfig
  \/ client_setConfig_custom
  \/ client_setConfig_restore
  \/ request

SpecClient == Init /\ [][NextClient]_vars

\* ======================================================= the uploaded File
\* fileUpload.ts 50-85: the File that uploadFile builds from filePath,
\* fileContent and fileName.  A name is <<stem, extension>>.
FileNames == {NoName, <<"report", "docx">>, <<"notes", "md">>}

\* What fileTypeFromBuffer finds in the bytes: an extension, or nothing.
Signatures == {"undefined", "png", "zip"}

\* path.basename(filePath) of the readable path.
Basename == <<"input", "pdf">>

\* The name of a File object handed in as fileContent.
OwnName == <<"own", "bin">>

\* "uploadedFile_" + randomUUID().replaceAll("-", "_") + "." + ext.
Generated(ext) == <<"uploadedFile_uuid", ext>>

\* A naming that keeps the generated name for bytes also when a fileName is
\* given.
uploadFile_name_generated(fp, fc, fileName, sig) ==
  IF fp # "undefined"
    THEN IF fileName # NoName THEN fileName ELSE Basename
  ELSE IF fc = "File" THEN OwnName
  ELSE IF fc \in {"Buffer", "Uint8Array"}
    THEN Generated(IF sig # "undefined" THEN sig ELSE "pdf")
  ELSE IF fileName # NoName THEN fileName ELSE Generated("txt")

\* fileUpload.ts 19-24, 55-82: the name of the File built.
uploadFile_name(fp, fc, fileName, sig) ==
  IF fp # "undefined"
    THEN IF fileName # NoName THEN fileName ELSE Basename
  ELSE IF fc = "File" THEN OwnName
  ELSE IF fc \in {"Buffer", "Uint8Array"}
    THEN IF fileName # NoName THEN fileName
         ELSE Generated(IF sig # "undefined" THEN sig ELSE "pdf")
  ELSE IF fileName # NoName THEN fileName ELSE Generated("txt")

\* uploadFile({filePath, fileContent, fileName, ...}) is called.
uploadFile_call ==
  /\ fileObj.stage # "args"
  /\ \E fp \in FilePaths, fc \in FileContents, fn \in FileNames,
        sig \in Signatures :
       fileObj' = [NoFile EXCEPT !.stage = "args", !.filePath = fp,
                                 !.fileContent = fc, !.fileName = fn,
                                 !.signature = sig]
  /\ UNCHANGED <<ChainVars, retriever, reader, http, chains>>

\* fileUpload.ts 50-85: the File is built, or the call throws.
uploadFile_file ==
  /\ fileObj.stage = "args"
  /\ LET t == uploadFile_input(NewTask(fileObj.filePath, fileObj.fileContent,
                                       "new"))
     IN IF t.state = "failed"
          THEN fileObj' = [fileObj EXCEPT !.stage = "threw"]
        ELSE fileObj' = [fileObj EXCEPT
               !.stage = "built",
               !.name = uploadFile_name(fileObj.filePath, fileObj.fileContent,
                                        fileObj.fileName, fileObj.signature)]
  /\ UNCHANGED <<ChainVars, retriever, reader, http, chains>>

NextFile ==
  \/ uploadFile_call
  \/ uploadFile_file

SpecFile == Init /\ [][NextFile]_vars

\* ====================================================== concurrent chains
\* Several extract calls on the same client (extract.ts 362-428, started for
\* instance by LlamaExtractAgent.extract, 1250-1281), interleaved at every
\* await.  Each step is one remote call of one chain; a non-2xx response
\* leaves the chain where it is, a thrown error ends it.
ChainResponses == {"ok", "fail", "neterr"}

\* A chain that submits the file id returned last, to whichever call.
extract_fileId_shared(st, c) == st.lastFileId

\* extract.ts 381-394: the file id of the create-job request is the local
\* fileId of the call.
extract_fileId(st, c) == st.call[c].fileId

\* extract.ts 404-427: the job id polled and fetched is the local jobId of
\* the call.
extract_jobId(st, c) == st.call[c].jobId

\* extract(agentId, filePath, ...) is called by caller c.
chain_extract(c) ==
  /\ chains.call[c].pc = "idle"
  /\ \E i \in Inputs :
       chains' = [chains EXCEPT !.call[c].pc = "upload",
                                !.call[c].input = i,
                                !.call[c].known = (chains.stored[i] # "none")]
  /\ UNCHANGED <<ChainVars, retriever, reader, http, fileObj>>

\* An uploader that remembers the id of a file it has uploaded and hands
\* it out again without a request.
chain_uploadFile_cached(c) ==
  /\ chains.call[c].pc = "upload"
  /\ IF chains.stored[chains.call[c].input] # "none"
     THEN chains' = [chains EXCEPT
            !.call[c].pc = "create",
            !.call[c].fileId = chains.stored[chains.call[c].input]]
     ELSE \E r \in ChainResponses, f \in FileIds :
       LET sent == [chains EXCEPT !.call[c].uploadSent = TRUE]
       IN CASE r = "ok" ->
                 chains' = [sent EXCEPT !.call[c].pc = "create",
                                        !.call[c].fileId = f,
                                        !.call[c].uploaded = f,
                                        !.lastFileId = f,
                                        !.stored[chains.call[c].input] = f]
            [] r = "fail" -> chains' = sent
            [] r = "neterr" -> chains' = [sent EXCEPT !.call[c].pc = "failed"]
  /\ UNCHANGED <<ChainVars, retriever, reader, http, fileObj>>

\* await uploadFile(...): one upload request of chain c.  uploadFile
\* (fileUpload.ts 26-120) builds the File from its arguments and posts it;
\* it keeps nothing from one call to the next.
chain_uploadFile(c) ==
  /\ chains.call[c].pc = "upload"
  /\ \E r \in ChainResponses, f \in FileIds :
       LET sent == [chains EXCEPT !.call[c].uploadSent = TRUE]
       IN CASE r = "ok" ->
                 chains' = [sent EXCEPT !.call[c].pc = "create",
                                        !.call[c].fileId = f,
                                        !.call[c].uploaded = f,
                                        !.lastFileId = f,
                                        !.stored[chains.call[c].input] = f]
            [] r = "fail" -> chains' = sent
            [] r = "neterr" -> chains' = [sent EXCEPT !.call[c].pc = "failed"]
  /\ UNCHANGED <<ChainVars, retriever, reader, http, fileObj>>

\* await createExtractJob(...): one create-job request of chain c.
chain_createExtractJob(c) ==
  /\ chains.call[c].pc = "create"
  /\ \E r \in ChainResponses, j \in JobIds :
       LET sent == [chains EXCEPT
                      !.call[c].sentFileId = extract_fileId(chains, c)]
       IN CASE r = "ok" ->
                 chains' = [sent EXCEPT !.call[c].pc = "poll",
                                        !.call[c].jobId = j,
                                        !.call[c].created = j,
                                        !.lastJobId = j]
            [] r = "fail" -> chains' = sent
            [] r = "neterr" -> chains' = [sent EXCEPT !.call[c].pc = "failed"]
  /\ UNCHANGED <<ChainVars, retriever, reader, http, fileObj>>

\* await pollForJobCompletion(jobId, ...): one status request of chain c.
chain_pollForJobCompletion(c) ==
  /\ chains.call[c].pc = "poll"
  /\ \E r \in {"pending", "success", "error"} :
       LET sent == [chains EXCEPT
                      !.call[c].polledJobId = extract_jobId(chains, c)]
       IN CASE r = "pending" -> chains' = sent
            [] r = "success" -> chains' = [sent EXCEPT !.call[c].pc = "result"]
            [] r = "error" -> chains' = [sent EXCEPT !.call[c].pc = "failed"]
  /\ UNCHANGED <<ChainVars, retriever, reader, http, fileObj>>

\* await getJobResult(jobId, ...): one result request of chain c.
chain_getJobResult(c) ==
  /\ chains.call[c].pc = "result"
  /\ \E r \in ChainResponses :
       LET sent == [chains EXCEPT
                      !.call[c].fetchedJobId = extract_jobId(chains, c)]
       IN CASE r = "ok" -> chains' = [sent EXCEPT !.call[c].pc = "done"]
            [] r = "fail" -> chains' = sent
            [] r = "neterr" -> chains' = [sent EXCEPT !.call[c].pc = "failed"]
  /\ UNCHANGED <<ChainVars, retriever, reader, http, fileObj>>

NextChains ==
  \E c \in Callers :
    \/ chain_extract(c)
    \/ chain_uploadFile(c)
    \/ chain_createExtractJob(c)
    \/ chain_pollForJobCompletion(c)
    \/ chain_getJobResult(c)

SpecChains == Init /\ [][NextChains]_vars

\* ========================================================= retry intervals
\* A retryInterval is held in thousandths of its unit, so that the 0.5 of
\* the source is the integer 500.
\* The default retryInterval of the methods of LlamaExtract (extract.ts
\* 1327, 1350, 1369, 1406): 0.5, but 500 in deleteAgent.
LlamaExtract_retryInterval(name) ==
  IF name = "deleteAgent" THEN 500 * 1000 ELSE 500

\* The default retryInterval of the functions the methods hand their
\* arguments to (extract.ts 53, 101, 379, 458, 513): 0.5.
extract_retryInterval(name) == 500

\* await sleep(retryInterval * 1000): the milliseconds slept.
sleep_ms(retryInterval) == (retryInterval * 1000) \div 1000

\* ===================================================== a responsive service
\* One extract or extractStateless call against a service that answers as
\* follows: no request is lost; the input names a file; the upload and the
\* result endpoint answer 2xx with data after at most maxRetriesOnError
\* non-2xx answers; the create-job endpoint does so before the retries of
\* the loop (non-2xx answers and jobs created as CANCELLED or ERROR) have
\* gone past maxRetriesOnError; the status endpoint reports SUCCESS at a
\* query made within the iteration budget and reports no CANCELLED or ERROR
\* before.
Responsive ==
  /\ lastResp.shape # "neterr"
  /\ \A k \in DOMAIN uploads :
       /\ uploads[k].state = "new" => uploadFile_input(uploads[k]).state = "loop"
       /\ uploads[k].fails <= args.maxRetriesOnError
  /\ pc = "create" => retries <= args.maxRetriesOnError
  /\ pc = "poll" => numIterations <= args.maxIterations
  /\ outcome.kind # "jobFailed"
  /\ pc = "result" => fails <= args.maxRetriesOnError

live_extract == extract /\ Responsive'

live_extractStateless == extractStateless /\ Responsive'

live_uploadFile == uploadFile(1) /\ Responsive'

live_createExtractJob == createExtractJob /\ Responsive'

live_pollForJobCompletion == pollForJobCompletion /\ Responsive'

live_getJobResult == getJobResult /\ Responsive'

NextLive ==
  \/ live_extract
  \/ live_extractStateless
  \/ live_uploadFile
  \/ live_createExtractJob
  \/ live_pollForJobCompletion
  \/ live_getJobResult

\* Every await of the call is resumed once the awaited promise has settled,
\* and the service answers every request: a step that can be taken is taken.
SpecLive == Init /\ [][NextLive]_vars /\ WF_vars(NextLive)

\* ====================================================== LlamaCloudRetriever
\* One LlamaCloudRetriever and one _retrieve call (LlamaCloudRetriever.ts).
\* The requests of the call are kept in the order they were issued.
MaxNodes == 1

\* {...a, ...b}: the keys of b override those of a.
Spread(a, b) == [k \in MetaKeys |-> IF b[k] # "absent" THEN b[k] ELSE a[k]]

\* metadata || {} and n.node.metadata ?? {}.
OrEmpty(m) == IF m.defined THEN m.value ELSE NoMeta

\* The nodes the search may answer with: text nodes with their own metadata
\* and extra_info, page screenshot nodes {file_id, page_index, metadata},
\* page figure nodes {file_id, page_index, figure_name, metadata}.
TextNodes ==
  {[metadata |-> m, extra_info |-> e] :
     m \in {NoMeta, Meta("node", {"file_name", "file_id"})},
     e \in {NoMeta, Meta("extra_info", {"file_name", "page_index"})}}
ImageMetas ==
  {Undefined(NoMeta), Defined(Meta("node", {"file_name", "file_id", "figure_name"}))}
ScreenshotNodes ==
  {[file_id |-> "file", page_index |-> "page", metadata |-> m] : m \in ImageMetas}
FigureNodes ==
  {[file_id |-> "file", page_index |-> "page", figure_name |-> "figure",
    metadata |-> m] : m \in ImageMetas}
RetrievalMetas ==
  {Undefined(NoMeta), Defined(Meta("retrieval", {"file_name"})),
   Defined(Meta("retrieval", MetaKeys))}
MaybeNodes(S) ==
  {Undefined(<<>>)} \cup {Defined(q) : q \in SeqsUpTo(S, MaxNodes)}

\* A store of text nodes in which the node's own values win.
resultNodesToNodeWithScore_nodeFirst(nodes, metadata) ==
  [i \in 1..Len(nodes) |->
     [kind |-> "text",
      metadata |-> Spread(Spread(OrEmpty(metadata), nodes[i].extra_info),
                          nodes[i].metadata)]]

\* LlamaCloudRetriever.ts 35-53: the metadata of a text node is its own,
\* then extra_info, then the retrieval-level metadata.
resultNodesToNodeWithScore(nodes, metadata) ==
  [i \in 1..Len(nodes) |->
     [kind |-> "text",
      metadata |-> Spread(Spread(nodes[i].metadata, nodes[i].extra_info),
                          OrEmpty(metadata))]]

\* LlamaCloudRetriever.ts 90-98: the metadata of a page screenshot node.
pageScreenshotNodesToNodeWithScore(nodes, metadata) ==
  [i \in 1..Len(nodes) |->
     [kind |-> "screenshot",
      metadata |->
        Spread(Spread(OrEmpty(nodes[i].metadata), OrEmpty(metadata)),
               [NoMeta EXCEPT !.file_id = nodes[i].file_id,
                              !.page_index = nodes[i].page_index])]]

\* LlamaCloudRetriever.ts 131-140: the metadata of a page figure node.
pageFigureNodesToNodeWithScore(nodes, metadata) ==
  [i \in 1..Len(nodes) |->
     [kind |-> "figure",
      metadata |->
        Spread(Spread(OrEmpty(nodes[i].metadata), OrEmpty(metadata)),
               [NoMeta EXCEPT !.file_id = nodes[i].file_id,
                              !.page_index = nodes[i].page_index,
                              !.figure_name = nodes[i].figure_name])]]

\* LlamaCloudRetriever.ts 166-178: the constructor keeps its parameters,
\* the three retrieval flags among them.
LlamaCloudRetriever_new ==
  /\ retriever.stage = "none"
  /\ \E i, s, f \in {"undefined", "true", "false"} :
       retriever' = [retriever EXCEPT !.stage = "idle", !.image = i,
                                      !.screenshot = s, !.figure = f,
                                      !.params = <<s, f>>]
  /\ UNCHANGED <<ChainVars, reader, http, fileObj, chains>>

\* A check that lets a call with contradicting flags through.
retrieve_flagsConflict_never(r) == FALSE

\* LlamaCloudRetriever.ts 195-199: retrieve_image_nodes is truthy and one
\* of the two other flags is false.
retrieve_flagsConflict(r) ==
  r.image = "true" /\ (r.screenshot = "false" \/ r.figure = "false")

\* LlamaCloudRetriever.ts 180-208: _retrieve is called; the deprecated flag
\* is warned about, a contradiction throws, and retrieve_image_nodes sets
\* the two other flags on the instance.
LlamaCloudRetriever_retrieve ==
  /\ retriever.stage = "idle"
  /\ LET w == [retriever EXCEPT !.warned = (retriever.image # "undefined")]
     IN IF retrieve_flagsConflict(retriever)
          THEN retriever' = [w EXCEPT !.stage = "done", !.outcome = "threw"]
        ELSE IF retriever.image = "true"
          THEN retriever' = [w EXCEPT !.stage = "pipeline",
                                      !.screenshot = "true", !.figure = "true"]
        ELSE retriever' = [w EXCEPT !.stage = "pipeline"]
  /\ UNCHANGED <<ChainVars, reader, http, fileObj, chains>>

\* LlamaCloudRetriever.ts 210-214: await getPipelineId(...).
retrieve_getPipelineId ==
  /\ retriever.stage = "pipeline"
  /\ \E ok \in BOOLEAN :
       retriever' = [retriever EXCEPT
         !.requests = Append(@, "getPipelineId"),
         !.stage = IF ok THEN "search" ELSE "done",
         !.outcome = IF ok THEN @ ELSE "threw"]
  /\ UNCHANGED <<ChainVars, reader, http, fileObj, chains>>

\* LlamaCloudRetriever.ts 237-244: which image nodes the call goes on to
\* fetch.
retrieve_need(flag) == flag = "true"

\* LlamaCloudRetriever.ts 216-244: the search request (throwOnError), the
\* text nodes, and the return when no image node is wanted.
retrieve_runSearch ==
  /\ retriever.stage = "search"
  /\ \/ retriever' = [retriever EXCEPT !.requests = Append(@, "runSearch"),
                                        !.stage = "done", !.outcome = "threw"]
     \/ \E tn \in SeqsUpTo(TextNodes, MaxNodes), md \in RetrievalMetas,
           im \in MaybeNodes(ScreenshotNodes), fg \in MaybeNodes(FigureNodes) :
          LET text == resultNodesToNodeWithScore(tn, md)
              got == [retriever EXCEPT
                        !.requests = Append(@, "runSearch"),
                        !.metadata = md, !.image_nodes = im,
                        !.page_figure_nodes = fg, !.textNodes = text]
          IN IF ~retrieve_need(retriever.screenshot)
                /\ ~retrieve_need(retriever.figure)
               THEN retriever' = [got EXCEPT !.stage = "done",
                                            !.outcome = "returned",
                                            !.nodes = text]
               ELSE retriever' = [got EXCEPT !.stage = "project"]
  /\ UNCHANGED <<ChainVars, reader, http, fileObj, chains>>

\* LlamaCloudRetriever.ts 246-263: await getProjectId(...); then the two
\* conversions are started, one that is not wanted being resolved to [].
retrieve_getProjectId ==
  /\ retriever.stage = "project"
  /\ \E ok \in BOOLEAN :
       retriever' = [retriever EXCEPT
         !.requests = Append(@, "getProjectId"),
         !.stage = IF ok THEN "images" ELSE "done",
         !.outcome = IF ok THEN @ ELSE "threw",
         !.shotsDone = ok /\ ~retrieve_need(retriever.screenshot),
         !.figuresDone = ok /\ ~retrieve_need(retriever.figure)]
  /\ UNCHANGED <<ChainVars, reader, http, fileObj, chains>>

\* LlamaCloudRetriever.ts 66-104: no node, no request; otherwise a presigned
\* URL is asked for each node and the image fetched, an error being thrown
\* on.
retrieve_screenshots ==
  /\ retriever.stage = "images"
  /\ ~retriever.shotsDone
  /\ LET nodes == retriever.image_nodes.value
     IN IF Len(nodes) = 0
          THEN retriever' = [retriever EXCEPT !.shotsDone = TRUE]
          ELSE \E ok \in BOOLEAN :
                 retriever' = [retriever EXCEPT
                   !.requests = Append(@, "pageScreenshot"),
                   !.shotsDone = ok,
                   !.screenshotNodes =
                      IF ok THEN pageScreenshotNodesToNodeWithScore(
                                   nodes, retriever.metadata)
                            ELSE @,
                   !.stage = IF ok THEN @ ELSE "done",
                   !.outcome = IF ok THEN @ ELSE "threw"]
  /\ UNCHANGED <<ChainVars, reader, http, fileObj, chains>>

\* LlamaCloudRetriever.ts 106-146: the same for the page figure nodes.
retrieve_figures ==
  /\ retriever.stage = "images"
  /\ ~retriever.figuresDone
  /\ LET nodes == retriever.page_figure_nodes.value
     IN IF Len(nodes) = 0
          THEN retriever' = [retriever EXCEPT !.figuresDone = TRUE]
          ELSE \E ok \in BOOLEAN :
                 retriever' = [retriever EXCEPT
                   !.requests = Append(@, "pageFigure"),
                   !.figuresDone = ok,
                   !.figureNodes =
                      IF ok THEN pageFigureNodesToNodeWithScore(
                                   nodes, retriever.metadata)
                            ELSE @,
                   !.stage = IF ok THEN @ ELSE "done",
                   !.outcome = IF ok THEN @ ELSE "threw"]
  /\ UNCHANGED <<ChainVars, reader, http, fileObj, chains>>

\* LlamaCloudRetriever.ts 265: [...textNodes, ...screenshotNodes,
\* ...figureNodes].
retrieve_concat(text, shots, figs) == text \o shots \o figs

\* LlamaCloudRetriever.ts 248-265: Promise.all has both lists.
retrieve_return ==
  /\ retriever.stage = "images"
  /\ retriever.shotsDone
  /\ retriever.figuresDone
  /\ retriever' = [retriever EXCEPT
       !.stage = "done",
       !.outcome = "returned",
       !.nodes = retrieve_concat(retriever.textNodes,
                                 retriever.screenshotNodes,
                                 retriever.figureNodes)]
  /\ UNCHANGED <<ChainVars, reader, http, fileObj, chains>>

NextRetriever ==
  \/ LlamaCloudRetriever_new
  \/ LlamaCloudRetriever_retrieve
  \/ retrieve_getPipelineId
  \/ retrieve_runSearch
  \/ retrieve_getProjectId
  \/ retrieve_screenshots
  \/ retrieve_figures
  \/ retrieve_return

SpecRetriever == Init /\ [][NextRetriever]_vars

\* ================================================================ claims
ExtractOps == {"extract", "extractStateless"}
ChainOps == ExtractOps \cup {"classify"}
AgentEndpoints == {"createAgent", "getAgentById", "getAgentByName", "deleteAgent"}
Failed == {"CANCELLED", "ERROR"}
TerminalSuccess == {"SUCCESS", "PARTIAL_SUCCESS"}

Tasks == {uploads[k] : k \in DOMAIN uploads}
Range(f) == {f[k] : k \in DOMAIN f}
LastWas(e, shape) == lastResp.endpoint = e /\ lastResp.shape = shape

\* ---------------------------------------------------------------------- C1
\* C1: with maxRetriesOnError = R, a retry loop (createAgent, getAgent,
\* deleteAgent, uploadFile, createExtractJob, createClassifyJob) whose every
\* attempt got a non-2xx response counts one retry per call, never issues
\* more than R+1 calls and raises retries-exhausted after exactly R+1 calls;
\* and a successful response (2xx with data, the job not reported CANCELLED
\* or ERROR) makes the operation return the value of that response, with no
\* error raised.
C1_AllFailed ==
  /\ \A t \in Tasks :
       /\ t.state = "loop" /\ t.calls = t.fails
            => t.retries = t.calls /\ t.calls <= args.maxRetriesOnError + 1
       /\ t.state = "failed" /\ t.error = "retryExhausted" /\ t.calls = t.fails
            => t.calls = args.maxRetriesOnError + 1
  /\ pc \in {"create", "createAgent", "getAgent", "deleteAgent"} /\ calls = fails
       => retries = calls /\ calls <= args.maxRetriesOnError + 1
  /\ outcome.kind = "retryExhausted" /\ outcome.at \in {"create"} \cup AgentEndpoints
       /\ calls = fails
       => calls = args.maxRetriesOnError + 1

C1_Success ==
  /\ \A e \in AgentEndpoints :
       LastWas(e, "ok") =>
         /\ outcome = Outcome("returned", e)
         /\ result = IF e = "deleteAgent" THEN "true" ELSE lastResp.id
  /\ LastWas("create", "ok") /\ lastResp.status \notin Failed
       => pc = "poll" /\ jobId = lastResp.id /\ outcome = NoOutcome
  /\ LastWas("upload", "ok") =>
       /\ outcome = NoOutcome
       /\ op \in ExtractOps => pc = "create" /\ fileIds = <<lastResp.id>>
       /\ op = "classify" =>
            lastResp.id \in Range(fileIds)
                            \cup {t.id : t \in {u \in Tasks : u.state = "done"}}

C1_RetryBudget == C1_AllFailed /\ C1_Success

C1_Witness ==
  /\ op \in ExtractOps
  /\ outcome = Outcome("retryExhausted", "create")
  /\ args.maxRetriesOnError >= 1
  /\ calls = fails
  /\ calls = args.maxRetriesOnError + 1

\* ---------------------------------------------------------------------- C2
\* C2: when every status response was 2xx with PENDING or RUNNING, the chain
\* fails with the timeout error after exactly maxIterations status queries.
C2_ExactlyNQueries ==
  outcome.kind = "timeout" /\ allPending => calls = args.maxIterations

\* ---------------------------------------------------------------------- C3
\* C3: a status response reporting PARTIAL_SUCCESS ends the polling: the
\* chain goes on to fetch the result.
C3_PartialSuccessIsTerminal ==
  LastWas("status", "ok") /\ lastResp.status = "PARTIAL_SUCCESS" => pc = "result"

\* ---------------------------------------------------------------------- C4
\* C4: a status response reporting ERROR or CANCELLED makes the chain end
\* with the job-failed error at that query, whatever budget remains, and no
\* remote call follows it.
C4_FailedAtQuery ==
  LastWas("status", "ok") /\ lastResp.status \in Failed
    => pc = "done" /\ outcome = Outcome("jobFailed", "status")

C4_NoCallAfter ==
  LastWas("status", "ok") /\ lastResp.status \in Failed
    => UNCHANGED <<calls, lastResp, numIterations>>

C4_JobFailedImmediately == []C4_FailedAtQuery /\ [][C4_NoCallAfter]_vars

C4_Witness ==
  /\ outcome = Outcome("jobFailed", "status")
  /\ lastResp.status = "ERROR"
  /\ numIterations < args.maxIterations

\* ---------------------------------------------------------------------- C5
\* C5: in a job chain every create-job request carries at least one file id
\* an upload has returned, every status query is for the job id create-job
\* has returned, and the requests come in order: the first create-job
\* request follows an upload response (in extract and extractStateless the
\* 2xx response whose id it carries), the first status query directly
\* follows the create-job response that returned the job id, and the first
\* result request directly follows a status response that reported a
\* terminal-success status.
C5_Held ==
  /\ Range(fileIds) \subseteq FileIds
  /\ lastResp.endpoint = "create" =>
       createReq # <<>> /\ Range(createReq) \subseteq FileIds
  /\ lastResp.endpoint \in {"status", "result"} => jobId \in JobIds
  /\ pc \in {"poll", "result"} => jobId \in JobIds

C5_Step ==
  /\ lastResp.endpoint # "create" /\ lastResp'.endpoint = "create" =>
       /\ lastResp.endpoint = "upload"
       /\ op \in ExtractOps => LastWas("upload", "ok") /\ fileIds = <<lastResp.id>>
       /\ fileIds # <<>> /\ createReq' = fileIds
  /\ lastResp.endpoint # "status" /\ lastResp'.endpoint = "status" =>
       LastWas("create", "ok") /\ jobId = lastResp.id
  /\ lastResp.endpoint # "result" /\ lastResp'.endpoint = "result" =>
       LastWas("status", "ok") /\ lastResp.status \in TerminalSuccess

C5_ChainOrder == []C5_Held /\ [][C5_Step]_vars

C5_Witness ==
  /\ op = "classify"
  /\ outcome = Outcome("returned", "result")
  /\ lastResp.endpoint = "result"
  /\ Len(createReq) = MaxFiles

\* ---------------------------------------------------------------------- C6
\* C6: an uploadFile call given no input source, or given both filePath and
\* fileContent, never enters the upload loop: it issues no upload request
\* and ends with an error raised before any request.
NoInput(t) == t.filePath = "undefined" /\ t.fileContent = "undefined"
BothInputs(t) == t.filePath # "undefined" /\ t.fileContent # "undefined"

C6_NoRequestOnBadInput ==
  \A t \in Tasks :
    NoInput(t) \/ BothInputs(t) =>
      /\ t.calls = 0
      /\ t.state \in {"new", "failed"}
      /\ t.error \in {"none", "inputError", "fsError"}

\* ---------------------------------------------------------------------- C7
\* C7 as stated: an uploadFile call makes exactly one remote upload call,
\* and the create-job request carries the id it returned.
C7_ExactlyOneCall ==
  /\ \A t \in Tasks : t.calls <= 1
  /\ lastResp.endpoint = "create" => createReq = fileIds

\* C7: every upload call of an uploadFile call that is still looping came
\* back without a file id (non-2xx, at most maxRetriesOnError+1 of them, or
\* 2xx without data); the call returns at the first 2xx response with data,
\* so exactly one upload call returns a file id, the last one; extract and
\* extractStateless hold that id, and only that id, from then on, and every
\* create-job request they send carries it.
C7_OneIdUnchanged ==
  /\ \A t \in Tasks :
       /\ t.state = "loop" =>
            /\ t.calls <= t.fails + empties
            /\ t.fails <= args.maxRetriesOnError + 1
       /\ t.state = "done" => t.id \in FileIds
  /\ op \in ExtractOps /\ pc = "create" /\ calls = 0 =>
       LastWas("upload", "ok") /\ fileIds = <<lastResp.id>> /\ uploads = <<>>
  /\ op \in ExtractOps /\ pc \in {"create", "poll", "result"} =>
       Len(fileIds) = 1 /\ fileIds[1] \in FileIds
  /\ op \in ExtractOps /\ lastResp.endpoint = "create" => createReq = fileIds

C7_Witness ==
  /\ op \in ExtractOps
  /\ LastWas("create", "fail")
  /\ createReq = <<"f2">>
  /\ fileIds = <<"f2">>

\* ---------------------------------------------------------------------- C8
\* C8: after a 2xx create-job response reporting CANCELLED or ERROR the job
\* id is not returned and the call has not failed: one retry is counted and
\* slept for and the loop is still running, or it has since run out of
\* budget.
C8_FailedJobRetried ==
  LastWas("create", "ok") /\ lastResp.status \in Failed =>
    /\ jobId = "none"
    /\ \/ pc = "create" /\ retries >= 1 /\ slept >= 1
       \/ outcome = Outcome("retryExhausted", "create")
            /\ retries > args.maxRetriesOnError

\* ---------------------------------------------------------------------- C9
\* C9: after a non-2xx response to a result request the call has counted a
\* retry and slept and is still running, or it has since run out of budget;
\* it has not failed in any other way.
C9_ResultRetried ==
  LastWas("result", "fail") =>
    \/ pc = "result" /\ retries >= 1 /\ slept = 1
    \/ outcome = Outcome("retryExhausted", "result")
         /\ retries > args.maxRetriesOnError

\* --------------------------------------------------------------------- C10
\* C10: a remote call that throws is retried within the budget: when the
\* network failure reaches the caller, or makes an upload give up, the
\* budget of the loop it happened in is exhausted.
C10_NetworkFailureRetried ==
  /\ outcome.kind = "networkError" =>
       IF outcome.at = "status"
         THEN numIterations > args.maxIterations
       ELSE IF outcome.at = "upload"
         THEN \A t \in Tasks : t.error = "networkError"
                                 => t.retries > args.maxRetriesOnError
       ELSE retries > args.maxRetriesOnError
  /\ \A t \in Tasks :
       t.error = "networkError" => t.retries > args.maxRetriesOnError

\* --------------------------------------------------------------------- C11
\* C11: a status query answered non-2xx does not end the polling: it adds
\* exactly one to the iteration counter, the one counter non-terminal
\* statuses add to (the retry counter is not touched, no sleep is taken),
\* the loop goes on, and the poller gives up only when that counter has
\* passed maxIterations.
C11_StatusFailure ==
  pc = "poll" /\ calls' = calls + 1 /\ fails' = fails + 1 =>
    /\ numIterations' = numIterations + 1
    /\ pc' = "poll"
    /\ UNCHANGED <<retries, outcome, jobId>>

C11_OneBudget ==
  /\ pc = "poll" => retries = 0 /\ numIterations <= args.maxIterations + 1
  /\ LastWas("status", "fail") =>
       pc = "poll" \/ outcome = Outcome("timeout", "poll")
  /\ outcome.kind = "timeout" => numIterations = args.maxIterations + 1

C11_FailureCountsOneIteration == []C11_OneBudget /\ [][C11_StatusFailure]_vars

C11_Witness ==
  /\ pc = "poll"
  /\ LastWas("status", "fail")
  /\ fails = 2 /\ calls = 2
  /\ numIterations = 2
  /\ args.maxIterations = 2

\* --------------------------------------------------------------------- C12
\* C12: getAgent with neither id nor name ends with an input error and no
\* request has been issued; with both it has warned by the time a request is
\* out and every request goes to get-by-id; with the name only every request
\* goes to get-by-name and nothing is warned.
C12_GetAgentInputs ==
  op = "getAgent" /\ pc # "idle" =>
    /\ ~args.id /\ ~args.name =>
         /\ lastResp.endpoint = "none" /\ calls = 0 /\ ~warned
         /\ pc = "done" => outcome = Outcome("inputError", "getAgent")
    /\ args.id /\ args.name =>
         /\ lastResp.endpoint \in {"none", "getAgentById"}
         /\ lastResp.endpoint = "getAgentById" => warned
    /\ args.name /\ ~args.id =>
         /\ lastResp.endpoint \in {"none", "getAgentByName"}
         /\ ~warned

C12_Witness ==
  /\ op = "getAgent"
  /\ args.id /\ args.name
  /\ warned
  /\ LastWas("getAgentById", "fail")
  /\ calls = 2

\* --------------------------------------------------------------------- C13
\* The schema a job created by the last create-job request runs with: the
\* one in the request, or else the one the service holds for the agent.
JobSchema ==
  IF body.data_schema # "absent" THEN body.data_schema ELSE SavedSchema

\* C13: a job created through an agent object runs with the schema the
\* object holds locally, reassigned or not.
C13_LocalSchemaUsed ==
  op = "extract" /\ agentObj # NoAgent /\ lastResp.endpoint = "create"
    => JobSchema = agentObj.dataSchema

\* --------------------------------------------------------------------- C14
\* C14: a create-job request of extract carries the agent id the call was
\* given (the id of the agent object when issued through one) and the one
\* uploaded file id, and neither schema nor config; a create-job request of
\* extractStateless carries the caller's schema and config and the one
\* uploaded file id, and no agent id.
C14_CreateBodies ==
  lastResp.endpoint = "create" /\ op \in ExtractOps =>
    /\ Len(createReq) = 1 /\ createReq = fileIds /\ createReq[1] \in FileIds
    /\ op = "extract" =>
         /\ body = [NoBody EXCEPT !.extraction_agent_id = args.agentId]
         /\ args.agentId \in AgentIds
         /\ agentObj # NoAgent => body.extraction_agent_id = agentObj.id
    /\ op = "extractStateless" =>
         /\ body = [NoBody EXCEPT !.data_schema = args.dataSchema,
                                  !.config = args.config]
         /\ args.dataSchema \in Schemas
         /\ args.config \in Configs

C14_Witness ==
  /\ op = "extractStateless"
  /\ LastWas("create", "ok")
  /\ body.data_schema = "s2"
  /\ createReq = <<"f2">>

\* --------------------------------------------------------------------- C15
\* C15: once create-job has returned a job id, the call keeps that id and
\* sends no create-job request any more, however the polling ends.
C15_Submitted ==
  jobId \in JobIds => pc \in {"poll", "result", "done"}

C15_NoResubmission ==
  jobId \in JobIds =>
    /\ jobId' = jobId
    /\ pc' # "create"
    /\ UNCHANGED <<createReq, body>>
    /\ lastResp'.endpoint = "create" => lastResp' = lastResp

C15_SubmittedOnce == []C15_Submitted /\ [][C15_NoResubmission]_vars

C15_Witness ==
  /\ outcome = Outcome("jobFailed", "status")
  /\ jobId = "j2"
  /\ lastResp.status = "CANCELLED"
  /\ args.maxRetriesOnError >= 1

\* --------------------------------------------------------------------- C16
\* C16: a loadData call that ended on an error (a remote call failed past its
\* retry budget, the job failed, or the poll budget ran out) has returned an
\* empty list when ignoreErrors is enabled and has raised the error when it
\* is disabled.
C16_IgnoreErrors ==
  reader.stage = "done" /\ reader.error # "none" =>
    IF reader.ignoreErrors
      THEN reader.outcome = "returned" /\ reader.value = "empty"
    ELSE reader.outcome = "raised" /\ reader.value = "none"

\* With ignoreErrors the upload succeeded, submit failed on every retry and
\* the call returned the empty list.
C16_Witness ==
  /\ reader.stage = "done"
  /\ reader.ignoreErrors
  /\ reader.keyValid
  /\ reader.error = "retryExhausted"
  /\ reader.at = "submit"
  /\ reader.maxErrorCount = MaxRetries
  /\ reader.outcome = "returned"
  /\ reader.value = "empty"

\* --------------------------------------------------------------------- C17
RECURSIVE Pow2(_)
Pow2(k) == IF k = 0 THEN 1 ELSE 2 * Pow2(k - 1)

\* The closed form of the k-th inter-poll delay, k counted from 0.
ClosedForm(pattern, base, step, cap, k) ==
  CASE pattern = "constant" -> base
    [] pattern = "linear" -> Min(base + k * step, cap)
    [] pattern = "exponential" -> Min(base * Pow2(k), cap)

\* The last delay slept is the delay number reader.k - 1.
DelayIsClosedForm ==
  reader.delay = ClosedForm(reader.backoffPattern, reader.checkInterval,
                            reader.step, reader.maxCheckInterval, reader.k - 1)

C18_EveryRequestIdentified ==
  http.via # "none" /\ http.sentKeyed =>
    {Authorization, SdkName} \subseteq http.sent

C21_NoKey == http.last.apiKey = "undefined" /\ http.last.env = "undefined"

C21_KeyUsed ==
  http.last.who # "none" =>
    /\ C21_NoKey => http.last.threw
    /\ http.last.apiKey # "undefined" /\ http.last.env # "undefined" =>
         ~http.last.threw /\ http.key[http.last.who] = http.last.apiKey

C21_ThrowCreatesNothing ==
  http'.last # http.last /\ http'.last.threw =>
    /\ http'.built = http.built
    /\ http'.key = http.key
    /\ http'.extract = http.extract /\ http'.classify = http.classify

\* C21: a constructor call of LlamaExtract, LlamaClassify or LlamaParseReader
\* with no apiKey argument and no LLAMA_CLOUD_API_KEY throws and creates no
\* client; with both present, the key the facade holds is the argument.
C21_ConstructorKey == []C21_KeyUsed /\ [][C21_ThrowCreatesNothing]_vars

\* A LlamaClassify built with both keys present holds the argument's, and a
\* LlamaExtract call without any key has thrown after it.
C21_Witness ==
  /\ http.key.classify = "argKey"
  /\ "classify" \in http.built
  /\ http.last.who = "extract"
  /\ C21_NoKey
  /\ http.last.threw
  /\ "extract" \notin http.built

\* --------------------------------------------------------------------- C22
C22_Bytes == fileObj.fileContent \in {"Buffer", "Uint8Array"}

C22_Named == fileObj.fileName # NoName

\* C22: the File built from bytes without a fileName has the extension
\* found in the byte signature, or pdf when none is found; the File built
\* from a text string without a fileName has the extension txt; a fileName
\* given with bytes, text or a path is the name of the File.
C22_UploadedName ==
  fileObj.stage = "built" =>
    /\ fileObj.filePath = "undefined" /\ C22_Bytes /\ ~C22_Named =>
         fileObj.name[2] = IF fileObj.signature # "undefined"
                             THEN fileObj.signature ELSE "pdf"
    /\ fileObj.filePath = "undefined" /\ fileObj.fileContent = "string"
         /\ ~C22_Named => fileObj.name[2] = "txt"
    /\ C22_Named /\ (fileObj.filePath # "undefined" \/ C22_Bytes
                       \/ fileObj.fileContent = "string") =>
         fileObj.name = fileObj.fileName

\* A Uint8Array with a recognised signature was given together with a
\* fileName of another extension, and the File bears the fileName.
C22_Witness ==
  /\ fileObj.stage = "built"
  /\ fileObj.filePath = "undefined"
  /\ fileObj.fileContent = "Uint8Array"
  /\ fileObj.signature = "png"
  /\ fileObj.fileName = <<"notes", "md">>
  /\ fileObj.name = <<"notes", "md">>

\* --------------------------------------------------------------------- C23
\* The retry loops that run on the counter retries.
RetryPcs == {"create", "result", "createAgent", "getAgent", "deleteAgent"}

\* The response counts as a failed attempt: a non-2xx response, or for
\* createExtractJob a job that is CANCELLED or ERROR at creation.
C23_FailedAttempt(r) ==
  \/ r.shape = "fail"
  \/ /\ r.endpoint = "create" /\ op \in ExtractOps
     /\ r.shape = "ok" /\ r.status \in Failed

\* Where only non-2xx responses are failed attempts, the counter is the
\* number of them; so it is for every uploadFile call.
C23_CounterIsFailures ==
  /\ pc \in RetryPcs /\ ~(pc = "create" /\ op \in ExtractOps) =>
       retries = fails
  /\ \A t \in Tasks : t.retries = t.fails

\* A call of a running retry loop that leaves the loop running, or ends it
\* by a thrown error, adds one to the counter if it is a failed attempt and
\* nothing otherwise; a call that ends the loop with its value leaves the
\* counter of the finished call as it is.
C23_Step ==
  /\ pc \in RetryPcs /\ calls' = calls + 1 =>
       retries' = retries + (IF C23_FailedAttempt(lastResp') THEN 1 ELSE 0)
  /\ pc \in RetryPcs /\ pc' = "done" /\ outcome'.kind = "returned" =>
       retries' = retries + (IF lastResp'.shape = "fail" THEN 1 ELSE 0)

C24_StageStartsAtZero ==
  /\ pc' # pc /\ pc' \in {"create", "result"} => retries' = 0
  /\ pc' # pc /\ pc' = "poll" => numIterations' = 0
  /\ \A i \in DOMAIN uploads \cap DOMAIN uploads' :
       uploads[i].state = "new" /\ uploads'[i].state = "loop" =>
         uploads'[i].retries = 0

\* An uploadFile call that gave up has had maxRetriesOnError + 1 failed
\* attempts of its own, whatever the other calls consumed.
C24_OwnBudget ==
  \A t \in Tasks :
    /\ t.error = "retryExhausted" => t.fails = args.maxRetriesOnError + 1
    /\ t.state = "loop" /\ t.fails <= args.maxRetriesOnError =>
         ~uploadFile_exhausted(t.retries, args.maxRetriesOnError)

\* C24: counters are never shared: within one facade call each stage starts
\* with its counter at zero, and each of the concurrent uploads of a classify
\* call has the whole retry budget to itself.
C24_CountersNotShared == []C24_OwnBudget /\ [][C24_StageStartsAtZero]_vars

\* Two concurrent uploads of one classify call: the first has used up its
\* budget, the second is still running with failures of its own.
C24_Witness ==
  /\ op = "classify"
  /\ Len(uploads) = 2
  /\ args.maxRetriesOnError = MaxRetries
  /\ uploads[1].error = "retryExhausted"
  /\ uploads[2].state = "loop"
  /\ uploads[2].fails = MaxRetries

\* --------------------------------------------------------------------- C25
\* C25: a retry loop with budget maxRetriesOnError has issued at most
\* maxRetriesOnError + 1 remote calls, a poll loop with budget maxIterations
\* at most maxIterations + 1, whatever the responses were, 2xx responses
\* without data included.
C25_BoundedCalls ==
  /\ pc \in RetryPcs => calls <= args.maxRetriesOnError + 1
  /\ pc = "poll" => calls <= args.maxIterations + 1
  /\ \A t \in Tasks : t.calls <= args.maxRetriesOnError + 1

\* --------------------------------------------------------------------- C26
\* C26: when the poller has given up (iteration budget exhausted) or has
\* seen ERROR or CANCELLED, the facade call is over with an error, it holds
\* no result, and the last request made is a status query of that job: no
\* result, cancel, delete or further status request follows.
C26_NoRequestAfterGiveUp ==
  outcome.kind \in {"timeout", "jobFailed"} =>
    /\ pc = "done"
    /\ op \in ChainOps
    /\ result = "none"
    /\ lastResp.endpoint = "status"
    /\ outcome.kind = "timeout" =>
         numIterations = args.maxIterations + 1
    /\ outcome.kind = "jobFailed" => lastResp.status \in Failed

\* A classify call whose poller used up the largest iteration budget.
C26_Witness ==
  /\ op = "classify"
  /\ outcome = Outcome("timeout", "poll")
  /\ args.maxIterations = MaxIter
  /\ calls > MaxIter

\* --------------------------------------------------------------------- C27
\* C27: under every interleaving of concurrent extract calls on one client,
\* the file id a call submits is the one its own upload returned, and the
\* job id it polls and fetches is the one its own create-job call returned.
C27_OwnIdentifiers ==
  \A c \in Callers :
    LET ch == chains.call[c]
    IN /\ ch.sentFileId # "none" => ch.sentFileId = ch.uploaded
       /\ ch.polledJobId # "none" => ch.polledJobId = ch.created
       /\ ch.fetchedJobId # "none" => ch.fetchedJobId = ch.created

\* Two calls have finished, having been given different file ids and job
\* ids, after the id returned last went to B.
C27_Witness ==
  /\ chains.call["A"].pc = "done"
  /\ chains.call["B"].pc = "done"
  /\ chains.call["A"].uploaded # chains.call["B"].uploaded
  /\ chains.call["A"].created # chains.call["B"].created
  /\ chains.call["A"].sentFileId # chains.lastFileId
  /\ chains.call["A"].fetchedJobId # chains.lastJobId

\* C28: no facade operation modifies the configuration of a client: a request
\* made through an instance client or through the global client, answered
\* with success or with failure, leaves the headers of the three clients,
\* the set of built clients and their keys as they were before the call.
C28_IsRequest ==
  <<http.via, http.sent, http.sentPhase, http.sentKeyed, http.answer>>' #
    <<http.via, http.sent, http.sentPhase, http.sentKeyed, http.answer>>

C28_ConfigKept ==
  /\ http'.extract = http.extract
  /\ http'.classify = http.classify
  /\ http'.global = http.global
  /\ http'.built = http.built
  /\ http'.key = http.key
  /\ http'.keyed = http.keyed

C28_ConfigUnchanged == [][C28_IsRequest => C28_ConfigKept]_vars

\* A failed call through the instance client of LlamaExtract, sent with
\* the headers the constructor gave it, which the client still has.
C28_Witness ==
  /\ http.via = "extract"
  /\ http.answer = "fail"
  /\ http.sent = {Authorization}
  /\ http.extract = {Authorization}

\* --------------------------------------------------------------------- C29
\* C29: the uploader never reuses a file id: a call that has got past its
\* upload step, or has submitted a file id, has issued an upload request of
\* its own, also when the same file had been uploaded by an earlier call,
\* and the file id it holds and submits is the one that request returned.
C29_OwnUpload ==
  \A c \in Callers :
    LET ch == chains.call[c]
    IN ch.pc \in {"create", "poll", "result", "done"} \/ ch.sentFileId # "none"
         => /\ ch.uploadSent
            /\ ch.uploaded # "none"
            /\ ch.fileId = ch.uploaded
            /\ ch.sentFileId \in {"none", ch.uploaded}

\* B was given the file A had already uploaded, uploaded it again and
\* submitted the id of its own upload, which differs from the id A got.
C29_Witness ==
  /\ chains.call["A"].pc = "done"
  /\ chains.call["B"].input = chains.call["A"].input
  /\ chains.call["B"].known
  /\ chains.call["B"].uploadSent
  /\ chains.call["B"].sentFileId = chains.call["B"].uploaded
  /\ chains.call["B"].uploaded # chains.call["A"].uploaded

\* --------------------------------------------------------------------- C30
\* C30: against a responsive service (upload, create-job and result answer
\* with success and data within maxRetriesOnError retries, the status
\* endpoint reports SUCCESS at a query within the iteration budget) an
\* extract call that has started eventually ends by returning the result:
\* it neither raises nor loops for ever.
C30_Started == op \in ExtractOps /\ pc = "upload"

C30_Returned ==
  /\ pc = "done"
  /\ outcome = Outcome("returned", "result")
  /\ result \in {getJobResult_return(op, d) : d \in ResultData}

C30_Terminates == C30_Started ~> C30_Returned

\* The call has returned after the result endpoint failed
\* maxRetriesOnError times and the status endpoint reported SUCCESS at the
\* last query of the budget, a 2xx answer without data on the way.
C30_Witness ==
  /\ C30_Returned
  /\ args.maxRetriesOnError = MaxRetries
  /\ fails = MaxRetries
  /\ args.maxIterations = MaxIter
  /\ numIterations = MaxIter
  /\ empties = MaxEmpty

\* --------------------------------------------------------------------- C31
\* C31: classify goes on to the create-job call only when every upload of
\* the call has settled, with a file id list that holds the ids of the
\* uploads that succeeded, in input order, those of filePaths before those
\* of fileContents, whatever order the uploads finished in; and every
\* create-job request is sent after that, with that list.
C31_Joined ==
  op = "classify" /\ pc # "create" /\ pc' = "create" =>
    LET done == SelectSeq(uploads, LAMBDA t : t.state = "done")
    IN /\ \A k \in DOMAIN uploads : Settled(uploads[k])
       /\ \A i, j \in DOMAIN uploads :
            IsPathTask(uploads[j]) /\ ~IsPathTask(uploads[i]) => j < i
       /\ Len(fileIds') = Len(done)
       /\ \A k \in 1..Len(done) : fileIds'[k] = done[k].id

C31_Sent ==
  op = "classify" /\ lastResp' # lastResp /\ lastResp'.endpoint = "create" =>
    /\ pc = "create"
    /\ uploads = <<>>
    /\ createReq' = fileIds

C31_AfterAllUploadsInOrder == [][C31_Joined /\ C31_Sent]_vars

\* A create-job request of classify with the ids of two uploads, the
\* second file id of the service given to the first input.
C31_Witness ==
  /\ op = "classify"
  /\ lastResp.endpoint = "create"
  /\ createReq = <<"f2", "f1">>

\* --------------------------------------------------------------------- C32
\* C32: in classify an upload that fails is skipped and does not end the
\* call: the call ends before the create-job request only for want of
\* input or because no upload succeeded, and then no create-job request
\* has been issued; it ends so only when no upload succeeded; and a
\* create-job request is issued only with the id of at least one upload.
C32_CreateIssued == lastResp.endpoint \in {"create", "status", "result"}

C32_PartialFailure ==
  op = "classify" =>
    /\ pc = "done" /\ ~C32_CreateIssued =>
         /\ outcome \in {Outcome("inputError", "classify"),
                          Outcome("noFiles", "upload")}
         /\ createReq = <<>>
    /\ outcome = Outcome("noFiles", "upload") =>
         /\ \A t \in Tasks : t.state = "failed"
         /\ fileIds = <<>>
         /\ ~C32_CreateIssued
    /\ pc \in {"create", "poll", "result"} \/ C32_CreateIssued =>
         /\ fileIds # <<>>
         /\ Range(fileIds) \subseteq FileIds
    /\ C32_CreateIssued => createReq = fileIds

\* Both uploads of a classify call have settled, one with an id and one
\* with its retries exhausted, and the call goes on.
C32_Witness ==
  /\ op = "classify"
  /\ pc \in {"uploadPaths", "uploadContents"}
  /\ outcome = NoOutcome
  /\ Len(uploads) = MaxFiles
  /\ \E t \in Tasks : t.state = "failed" /\ t.error = "retryExhausted"
  /\ \E t \in Tasks : t.state = "done"

\* --------------------------------------------------------------------- C33
\* C33: a status query that is followed by another status query of the same
\* poll loop is followed by one sleep first, whatever its response was:
\* when the loop stands before a further query, the query before it slept.
C33_SleepBetweenQueries ==
  /\ pc = "poll"
  /\ lastResp.endpoint = "status"
  /\ ~pollForJobCompletion_exhausted(numIterations, args.maxIterations)
  => slept = 1

\* --------------------------------------------------------------------- C34
\* C34: with default arguments a retry loop entered from LlamaExtract
\* (createAgent, getAgent, deleteAgent, extract) that has slept after a
\* failed attempt has slept 500 milliseconds, the duration the default
\* retryInterval of the function it runs in stands for.  The method passes
\* its own retryInterval on, so that the default of the function is not
\* the one used.
C34_SameDefaultInterval ==
  /\ op \in {"createAgent", "getAgent", "deleteAgent", "extract"}
  /\ slept > 0
  /\ lastResp.endpoint # "status"
  => /\ sleep_ms(LlamaExtract_retryInterval(op)) = 500
     /\ sleep_ms(LlamaExtract_retryInterval(op))
          = sleep_ms(extract_retryInterval(op))

\* --------------------------------------------------------------------- C35
\* C35: a _retrieve call with retrieve_image_nodes true and one of
\* retrieve_page_screenshot_nodes, retrieve_page_figure_nodes false has
\* thrown without a request; with retrieve_image_nodes true otherwise both
\* flags are true from then on; the project id and the images of a kind are
\* fetched only when the flag of the kind is set; and the nodes returned are
\* the text nodes, then the screenshot nodes, then the figure nodes, those
\* of a kind being all the nodes of the response when its flag is set and
\* none otherwise.
C35_Called == retriever.stage \notin {"none", "idle"}

C35_Rank(kind) ==
  CASE kind = "text" -> 1 [] kind = "screenshot" -> 2 [] kind = "figure" -> 3

C35_Count(kind) ==
  Cardinality({i \in DOMAIN retriever.nodes : retriever.nodes[i].kind = kind})

C35_FlagsAndOrder ==
  /\ C35_Called /\ retriever.image = "true" =>
       IF "false" \in Range(retriever.params)
         THEN /\ retriever.outcome = "threw"
              /\ retriever.requests = <<>>
              /\ <<retriever.screenshot, retriever.figure>> = retriever.params
         ELSE retriever.screenshot = "true" /\ retriever.figure = "true"
  /\ C35_Called /\ retriever.image # "true" =>
       /\ retriever.requests = <<>> => retriever.outcome = "none"
       /\ <<retriever.screenshot, retriever.figure>> = retriever.params
  /\ "getProjectId" \in Range(retriever.requests) =>
       "true" \in {retriever.screenshot, retriever.figure}
  /\ "pageScreenshot" \in Range(retriever.requests) =>
       retriever.screenshot = "true"
  /\ "pageFigure" \in Range(retriever.requests) => retriever.figure = "true"
  /\ retriever.outcome = "returned" =>
       /\ \A i, j \in DOMAIN retriever.nodes :
            i < j => C35_Rank(retriever.nodes[i].kind)
                       <= C35_Rank(retriever.nodes[j].kind)
       /\ C35_Count("text") = Len(retriever.textNodes)
       /\ C35_Count("screenshot") =
            IF retriever.screenshot = "true"
              THEN Len(retriever.image_nodes.value) ELSE 0
       /\ C35_Count("figure") =
            IF retriever.figure = "true"
              THEN Len(retriever.page_figure_nodes.value) ELSE 0

\* A call with the deprecated flag alone has returned a text node, a
\* screenshot node and a figure node after five requests.
C35_Witness ==
  /\ retriever.outcome = "returned"
  /\ retriever.image = "true"
  /\ retriever.warned
  /\ Len(retriever.requests) = 5
  /\ Len(retriever.nodes) = 3 * MaxNodes

\* --------------------------------------------------------------------- C36
\* C36: every node the retriever has returned carries the retrieval-level
\* metadata of the response: each key set there has the retrieval-level
\* value in the node, except that in a screenshot node file_id and
\* page_index, and in a figure node figure_name too, are those of the node
\* itself.
C36_OwnKeys(kind) ==
  CASE kind = "text" -> {}
    [] kind = "screenshot" -> {"file_id", "page_index"}
    [] kind = "figure" -> {"file_id", "page_index", "figure_name"}

C36_OwnValue(k) ==
  CASE k = "file_id" -> "file"
    [] k = "page_index" -> "page"
    [] k = "figure_name" -> "figure"
    [] OTHER -> "absent"

C36_MetadataPropagated ==
  retriever.outcome = "returned" =>
    \A i \in DOMAIN retriever.nodes :
      LET n == retriever.nodes[i]
          md == OrEmpty(retriever.metadata)
      IN \A k \in MetaKeys :
           /\ k \in C36_OwnKeys(n.kind) => n.metadata[k] = C36_OwnValue(k)
           /\ k \notin C36_OwnKeys(n.kind) /\ md[k] # "absent" =>
                n.metadata[k] = md[k]

\* A text node, a screenshot node and a figure node have been returned
\* with retrieval-level metadata that sets every key: the text node has its
\* file_id from there, the image nodes have their own.
C36_Witness ==
  /\ retriever.outcome = "returned"
  /\ retriever.metadata = Defined(Meta("retrieval", MetaKeys))
  /\ Len(retriever.nodes) = 3
  /\ retriever.nodes[1].metadata.file_id = "retrieval"
  /\ retriever.nodes[2].metadata.file_id = "file"
  /\ retriever.nodes[2].metadata.figure_name = "retrieval"
  /\ retriever.nodes[3].metadata.figure_name = "figure"
====
